---- MODULE Spec2Model ----
(***************************************************************************)
(* Encore! Player: the stem playback and mixer engine of PlayerScreen      *)
(* (src/unnamed/part_001).  One cue (song) is active at a time; each of    *)
(* its stems is played by one HTMLAudioElement kept in audioInstances.     *)
(*                                                                         *)
(* Units.  Volumes are multiples of the sliders' step 0.05, so a stem or   *)
(* master volume v stands for v / VolScale, and an element's volume (a     *)
(* product of the two) g stands for g / (VolScale * VolScale).  Times are  *)
(* whole seconds 0 .. MaxTime.                                             *)
(***************************************************************************)
EXTENDS Integers, Sequences, FiniteSets, TLC

\* ---------------------------------------------------------------- bounds
NumCues  == 2      \* cues in the list
MaxStems == 2      \* stems per cue
MaxGen   == 3      \* activations of one player
MaxSuperseded == 1 \* activations whose late events are explored
MaxTime  == 3      \* length of a cue's reference stem, in seconds
MaxPending == 1    \* play requests whose outcome is still outstanding
MaxSamples == 3    \* decoded samples of a stem's first channel
MaxWidth == 3      \* canvas.offsetWidth, in columns

\* ------------------------------------------------------ program constants
VolScale == 20     \* 1 / step of the volume sliders (step="0.05")
Deadband == 4      \* 0.01 in units of 1 / (VolScale * VolScale)
PrevRestartAfter == 2   \* handlePrev: currentTime > 2 restarts the cue

VARIABLES
  cues,             \* App's cue list, as the cues' ids in sidebar order
  db,               \* the IndexedDB object store: cue id -> order
  orphans,          \* elements let go of while still playing, and object
                    \* URLs let go of without having been revoked
  currentCueIndex,  \* useState(0), here 1-based
  loadGeneration,   \* useRef(0)
  generations,      \* per activation: whether it built an element, and what
                    \* its ended listener captured: repeatTrack, autoNext
                    \* and, read only with autoNext on, cues.length
  audioInstances,   \* useRef(new Map()): insertion-ordered stemId -> Audio
  activeUrls,       \* activeUrlsRef: object URLs not yet revoked by loadCue
  isPlaying, currentTime, duration, error, isLoading,
  repeatTrack, masterVolume, isMasterMuted,
  autoNext,         \* useState(false) of the build with the Auto-Next switch
  waveforms,        \* per rendered lane (stem id): the Waveform component's
                    \* status, the mask it shows, and the samples and width
                    \* its last drawing was made from
  mixerState,       \* stemId -> {volume, muted, soloed}
  loadedCount,      \* the canplay counter of the current activation, kept up
                    \* to totalStems: it is only ever compared with >=
  pendingPlays,     \* Promise.all(play() ...) not yet settled
  lastOp            \* the handler or callback that ran last, and whether it
                    \* belonged to a superseded activation

vars == <<cues, db, orphans, currentCueIndex, loadGeneration, generations, audioInstances,
          activeUrls, isPlaying, currentTime, duration, error, isLoading,
          repeatTrack, autoNext, waveforms, masterVolume, isMasterMuted,
          mixerState, loadedCount, pendingPlays, lastOp>>

\* ------------------------------------------------------------------ data
Times == 0 .. MaxTime
CueIds == 1 .. NumCues

\* Stem ids are unique within a cue only (`local-${index}-${file.name}`):
\* neighbouring cues share one id.
StemsOf(c) == [i \in 1 .. MaxStems |-> c + i - 1]
StemIdsOf(c) == {StemsOf(c)[i] : i \in 1 .. MaxStems}
AllStemIds == UNION {StemIdsOf(c) : c \in CueIds}

\* const currentCue = cues[currentCueIndex]  (0 stands for undefined)
NoCue == 0
currentCue ==
  IF currentCueIndex \in 1 .. Len(cues) THEN cues[currentCueIndex] ELSE NoCue

NoError == "null"
DefaultEntry == [volume |-> VolScale, muted |-> FALSE, soloed |-> FALSE]
FullVolume == VolScale * VolScale

Range(s) == {s[i] : i \in 1 .. Len(s)}
InstanceStems == {audioInstances[i].stem : i \in 1 .. Len(audioInstances)}
Abs(x) == IF x < 0 THEN -x ELSE x

\* -------------------------------------------------------- Gain Resolver
\* const anySolo = Object.values(currentMixerState).some(s => s.soloed)
AnySoloIgnored(mixer) == FALSE
AnySolo(mixer) == \E k \in DOMAIN mixer : mixer[k].soloed

\* Orders of the chain that a slip would produce: the master mute tested
\* last, the solo tested before the stem's mute, the master volume left out.
EffectiveVolumeMasterLast(state, anySolo, masterMuted, masterVol) ==
  IF state.muted THEN 0
  ELSE IF anySolo THEN (IF state.soloed THEN state.volume * masterVol ELSE 0)
  ELSE IF masterMuted THEN 0
  ELSE state.volume * masterVol

EffectiveVolumeSoloFirst(state, anySolo, masterMuted, masterVol) ==
  IF masterMuted THEN 0
  ELSE IF anySolo THEN (IF state.soloed THEN state.volume * masterVol ELSE 0)
  ELSE IF state.muted THEN 0
  ELSE state.volume * masterVol

EffectiveVolumeNoMaster(state, anySolo, masterMuted, masterVol) ==
  IF masterMuted THEN 0
  ELSE IF state.muted THEN 0
  ELSE IF anySolo THEN (IF state.soloed THEN state.volume * VolScale ELSE 0)
  ELSE state.volume * VolScale

\* The if / else-if chain of applyVolumes for one stem's entry.
EffectiveVolume(state, anySolo, masterMuted, masterVol) ==
  IF masterMuted THEN 0
  ELSE IF state.muted THEN 0
  ELSE IF anySolo THEN (IF state.soloed THEN state.volume * masterVol ELSE 0)
  ELSE state.volume * masterVol

\* currentMixerState[stemId] || { volume: 1, muted: false, soloed: false }
EntryOf(mixer, stemId) ==
  IF stemId \in DOMAIN mixer THEN mixer[stemId] ELSE DefaultEntry

Resolve(mixer, masterMuted, masterVol, stemId) ==
  EffectiveVolume(EntryOf(mixer, stemId), AnySolo(mixer), masterMuted, masterVol)

\* if (Math.abs(audio.volume - effectiveVolume) > 0.01) audio.volume = ...
WriteVolume(old, new) == IF Abs(old - new) > Deadband THEN new ELSE old

\* applyVolumes(currentMixerState) over a list of elements.
ApplyVolumesUnmastered(instances, mixer, masterMuted, masterVol) ==
  [i \in 1 .. Len(instances) |->
     [instances[i] EXCEPT !.volume =
        WriteVolume(@, Resolve(mixer, FALSE, VolScale, instances[i].stem))]]
ApplyVolumes(instances, mixer, masterMuted, masterVol) ==
  [i \in 1 .. Len(instances) |->
     [instances[i] EXCEPT !.volume =
        WriteVolume(@, Resolve(mixer, masterMuted, masterVol, instances[i].stem))]]

\* ------------------------------------------------------------ IndexedDB
\* cues.forEach((cue, index) => store.put({ id: cue.id, order: index, ... }))
\* on a store with keyPath 'id': a record replaces the one with its id.
PutAll(store, list) ==
  [id \in DOMAIN store \cup Range(list) |->
     IF id \in Range(list)
     THEN (CHOOSE i \in 1 .. Len(list) :
             list[i] = id /\ \A j \in i + 1 .. Len(list) : list[j] # id) - 1
     ELSE store[id]]

\* saveCuesToDB(cues): store.clear(), then one put per cue, in one
\* transaction.
SaveCuesToDBOnTop(store, list) == PutAll(store, list)
SaveCuesToDB(store, list) == PutAll(<<>>, list)

\* loadCuesFromDB: getAll() returns the records in key order, and the sort
\* by order is stable.
LoadCuesFromDB(store) ==
  LET Before(a, b) == \/ store[a] < store[b]
                      \/ store[a] = store[b] /\ a < b
      Rank(id) == Cardinality({a \in DOMAIN store : Before(a, id)}) + 1
  IN [i \in 1 .. Cardinality(DOMAIN store) |->
        CHOOSE id \in DOMAIN store : Rank(id) = i]

\* ---------------------------------------------------------------- Init
\* The list App restored from the store when it mounted.
Init ==
  /\ cues = [i \in 1 .. NumCues |-> i]
  /\ db = PutAll(<<>>, cues)
  /\ orphans = {}
  /\ currentCueIndex = 1
  /\ loadGeneration = 0
  /\ generations = <<>>
  /\ audioInstances = <<>>
  /\ activeUrls = <<>>
  /\ isPlaying = FALSE
  /\ currentTime = 0
  /\ duration = 0
  /\ error = NoError
  /\ isLoading = FALSE
  /\ repeatTrack = FALSE
  /\ autoNext = FALSE
  /\ waveforms = <<>>
  /\ masterVolume = VolScale
  /\ isMasterMuted = FALSE
  /\ mixerState = <<>>
  /\ loadedCount = 0
  /\ pendingPlays = <<>>
  /\ lastOp = [name |-> "init", stale |-> FALSE]

\* ------------------------------------------------------------- loadCue
\* audioInstances.current.forEach(audio => audio.pause()): pausing an
\* element that is not paused rejects its outstanding play() promises.
PauseAll(instances) ==
  [i \in 1 .. Len(instances) |-> [instances[i] EXCEPT !.paused = TRUE]]

AnySounding(instances) ==
  \E i \in 1 .. Len(instances) : ~instances[i].paused

RejectPending(pending, instances, gen) ==
  [i \in 1 .. Len(pending) |->
     IF pending[i].gen = gen /\ AnySounding(instances)
     THEN [pending[i] EXCEPT !.rejected = TRUE]
     ELSE pending[i]]

\* audioInstances.current.clear()
ClearInstancesKept(instances) == PauseAll(instances)
ClearInstances(instances) == <<>>

\* activeUrlsRef.current.forEach(url => URL.revokeObjectURL(url));
\* activeUrlsRef.current = []
RevokeUrls(urls) == <<>>

\* What the teardown lets go of: the elements dropped from the map, after
\* audio.pause() on each, and the URLs dropped from activeUrlsRef, after
\* URL.revokeObjectURL on each.
TeardownUnpaused(instances, urls) ==
  {[kind |-> "audio", gen |-> instances[i].gen, stem |-> instances[i].stem] :
     i \in {j \in 1 .. Len(instances) : ~instances[j].paused}}
Teardown(instances, urls) ==
  LET stopped == PauseAll(instances)
      revoked == [i \in 1 .. Len(urls) |-> [url |-> urls[i], revoked |-> TRUE]]
  IN {[kind |-> "audio", gen |-> stopped[i].gen, stem |-> stopped[i].stem] :
        i \in {j \in 1 .. Len(stopped) : ~stopped[j].paused}}
     \cup {[kind |-> "url", gen |-> revoked[i].url.gen,
            stem |-> revoked[i].url.stem] :
             i \in {j \in 1 .. Len(revoked) : ~revoked[j].revoked}}

\* initialMixerState: one default entry per stem of the cue.
InitialMixerStateKept(cue) == [s \in StemIdsOf(cue) |-> EntryOf(mixerState, s)]
InitialMixerState(cue) == [s \in StemIdsOf(cue) |-> DefaultEntry]

\* The elements built by the stems' async functions, in stem order; a stem
\* whose URL.createObjectURL throws (bad) builds none.
NewAudio(gen, cue, stem) ==
  [stem |-> stem, gen |-> gen, cue |-> cue, paused |-> TRUE, pos |-> 0,
   len |-> MaxTime, volume |-> FullVolume, status |-> "loading"]

CreatedStems(cue, bad) ==
  SelectSeq(StemsOf(cue), LAMBDA s : s \notin bad)

NewInstances(gen, cue, bad) ==
  LET made == CreatedStems(cue, bad)
  IN [i \in 1 .. Len(made) |-> NewAudio(gen, cue, made[i])]

\* The files of the stems in short are one second shorter than the others.
WithLengths(instances, short) ==
  [i \in 1 .. Len(instances) |->
     IF instances[i].stem \in short
     THEN [instances[i] EXCEPT !.len = MaxTime - 1]
     ELSE instances[i]]

NewUrls(gen, cue, bad) ==
  LET made == CreatedStems(cue, bad)
  IN [i \in 1 .. Len(made) |-> [gen |-> gen, cue |-> cue, stem |-> made[i]]]

\* The lanes rendered for a cue, one StemLane (key: stem.id) with one
\* Waveform per stem.  Each gets a new audioUrl, so its effect runs draw,
\* which starts with setStatus('loading'); a lane that was already rendered
\* for a stem with the same id keeps its component, and its mask with it.
\* running: the draw started for the lane's present file has not ended;
\* slow: that draw takes longer than the cue stays active;
\* late: a draw started for a file the lane had before has not ended;
\* shows: whether the mask was drawn from the present file, from an earlier
\* one, or not at all.  The lanes of a cue that is activated again keep
\* their stem objects, so their URLs stay and no effect runs.  The files
\* of the stems in slow take long to fetch and decode.
NewWaveform ==
  [status |-> "loading", mask |-> <<>>, data |-> <<>>, width |-> 0,
   shows |-> "none", running |-> TRUE, slow |-> FALSE, late |-> FALSE]
LanesWith(cue, slow) ==
  IF cue = currentCue /\ DOMAIN waveforms = StemIdsOf(cue)
  THEN waveforms
  ELSE [s \in StemIdsOf(cue) |->
          IF s \in DOMAIN waveforms
          THEN [waveforms[s] EXCEPT
                  !.status = "loading",
                  !.running = TRUE,
                  !.slow = s \in slow,
                  !.late = @ \/ (waveforms[s].running /\ waveforms[s].slow),
                  !.shows = IF @ = "none" THEN "none" ELSE "earlier"]
          ELSE [NewWaveform EXCEPT !.slow = s \in slow]]
LanesFor(cue) == LanesWith(cue, {})

\* The catch clause of loadCue, reached when some stem's promise rejected.
LoadFailed(gen, bad) == bad # {} /\ loadGeneration' = gen

\* const gen = ++loadGeneration.current
NextGenerationSkips(current) == current + 2
NextGeneration(current) == current + 1

\* The body of loadCue for a cue (already the current one), followed by the
\* applyVolumes effect that setMixerState triggers.  No stem function awaits,
\* so every promise is settled when Promise.all is called and the
\* continuation runs before any other task.
ActivateDecoding(cue, bad, short, slow) ==
  LET gen == NextGeneration(loadGeneration)
      mixer == InitialMixerState(cue)
  IN /\ loadGeneration' = gen
     /\ pendingPlays' = RejectPending(pendingPlays, audioInstances, loadGeneration)
     /\ orphans' = orphans \cup Teardown(audioInstances, activeUrls)
     /\ activeUrls' = RevokeUrls(activeUrls) \o NewUrls(gen, cue, bad)
     /\ isPlaying' = FALSE
     /\ currentTime' = 0
     /\ duration' = 0
     /\ mixerState' = mixer
     /\ loadedCount' = 0
     /\ generations' = Append(generations,
                          [made |-> CreatedStems(cue, bad) # <<>>,
                           repeat |-> repeatTrack,
                           advance |-> autoNext,
                           count |-> IF autoNext THEN Len(cues') ELSE 0])
     /\ IF LoadFailed(gen, bad)
        THEN error' = "Failed to load audio stems." /\ isLoading' = FALSE
        ELSE error' = NoError /\ isLoading' = TRUE
     /\ audioInstances' =
          ApplyVolumes(ClearInstances(audioInstances)
                         \o WithLengths(NewInstances(gen, cue, bad), short),
                       mixer, isMasterMuted, masterVolume)
     /\ waveforms' = LanesWith(cue, slow)
     /\ UNCHANGED <<repeatTrack, autoNext, masterVolume, isMasterMuted>>

\* loadCue for a cue none of whose files is slow to decode.
ActivateFiles(cue, bad, short) == ActivateDecoding(cue, bad, short, {})

\* loadCue for a cue whose stems all have the length of the first.
Activate(cue, bad) == ActivateFiles(cue, bad, {})

\* loadCue run for the cue at index idx of an unchanged list.
LoadCue(idx, bad) == UNCHANGED <<cues, db>> /\ Activate(cues[idx], bad)

HandleEvents == {"canplay", "timeupdate", "durationchange", "error", "ended"}

\* What lastOp keeps of a step: the handler that ran, or that it was one of
\* an element's listeners, and whether the activation it belongs to has been
\* superseded.
Op(name, gen) ==
  [name |-> IF name \in HandleEvents THEN "event" ELSE name,
   stale |-> gen # loadGeneration]

\* The load effect's first run, when PlayerScreen mounts; createObjectURL
\* throws for the stems in bad.
MountWith(bad) ==
  /\ loadGeneration = 0
  /\ currentCue # NoCue
  /\ bad \subseteq StemIdsOf(currentCue)
  /\ LoadCue(currentCueIndex, bad)
  /\ UNCHANGED currentCueIndex
  /\ lastOp' = Op("loadCue", loadGeneration)

Mount == \E bad \in SUBSET AllStemIds : MountWith(bad)

\* The first run of the load effect for a cue whose stems in slow have
\* files that take long to fetch and decode.
MountDecoding(slow) ==
  /\ loadGeneration = 0
  /\ currentCue # NoCue
  /\ slow \subseteq StemIdsOf(currentCue)
  /\ UNCHANGED <<cues, db, currentCueIndex>>
  /\ ActivateDecoding(currentCue, {}, {}, slow)
  /\ lastOp' = Op("loadCue", loadGeneration)

\* The first run of the load effect for a cue whose stems in short are
\* shorter than its first stem.
MountFiles(short) ==
  /\ loadGeneration = 0
  /\ currentCue # NoCue
  /\ short \subseteq StemIdsOf(currentCue) \ {StemsOf(currentCue)[1]}
  /\ UNCHANGED <<cues, db, currentCueIndex>>
  /\ ActivateFiles(currentCue, {}, short)
  /\ lastOp' = Op("loadCue", loadGeneration)

\* onClick of a cue row: setCurrentCueIndex(idx); the load effect runs again
\* only when the index (or the cue's id) changed.
SelectCue(idx) ==
  /\ loadGeneration > 0
  /\ loadGeneration < MaxGen
  /\ idx \in 1 .. Len(cues)
  /\ idx # currentCueIndex
  /\ currentCueIndex' = idx
  /\ \E bad \in SUBSET StemIdsOf(cues[idx]) : LoadCue(idx, bad)
  /\ lastOp' = Op("loadCue", loadGeneration)

\* ------------------------------------------------- media element events
\* Each listener is a closure over the gen of the loadCue call that added it.
\* The first element built by an activation is its reference handle and the
\* only one with the timeupdate, durationchange, ended and error listeners.
IsStale(g) == g \in 1 .. loadGeneration - 1 /\ generations[g].made
RefStem == audioInstances[1].stem

\* if (loadGeneration.current === gen) setCurrentTime(audio.currentTime)
OnTimeUpdateUnguarded(gen, t) == currentTime' = t
OnTimeUpdate(gen, t) ==
  IF loadGeneration = gen THEN currentTime' = t ELSE UNCHANGED currentTime

\* if (loadGeneration.current === gen) setDuration(audio.duration)
OnDurationChange(gen, d) ==
  IF loadGeneration = gen THEN duration' = d ELSE UNCHANGED duration

\* if (loadGeneration.current === gen) setError("Playback Error")
OnError(gen) ==
  IF loadGeneration = gen THEN error' = "Playback Error" ELSE UNCHANGED error

\* if (loadGeneration.current === gen) { loadedCount++; if (loadedCount >=
\* totalStems) setIsLoading(false); }   totalStems counts every stem of the cue.
OnCanPlay(gen) ==
  IF loadGeneration = gen
  THEN /\ loadedCount' = IF loadedCount + 1 >= MaxStems THEN MaxStems
                          ELSE loadedCount + 1
       /\ isLoading' = IF loadedCount + 1 >= MaxStems THEN FALSE ELSE isLoading
  ELSE UNCHANGED <<loadedCount, isLoading>>

\* audio.play() on every element: an element whose request the host refuses
\* (blocked) stays paused and its promise rejects; the others start, from the
\* beginning when they stood at the end of their file.
PlayAll(instances, blocked) ==
  [i \in 1 .. Len(instances) |->
     IF instances[i].stem \in blocked THEN instances[i]
     ELSE [instances[i] EXCEPT
             !.paused = FALSE,
             !.pos = IF @ = instances[i].len THEN 0 ELSE @]]

\* a.currentTime = t on every element; an element cannot stand beyond the
\* end of its file.
SeekAllAdds(instances, t) ==
  [i \in 1 .. Len(instances) |->
     [instances[i] EXCEPT !.pos = IF @ + t > instances[i].len
                                  THEN instances[i].len ELSE @ + t]]
SeekAll(instances, t) ==
  [i \in 1 .. Len(instances) |->
     [instances[i] EXCEPT !.pos = IF t > instances[i].len
                                  THEN instances[i].len ELSE t]]

\* Requests that can be refused: any, and always those of failed elements.
Blockable(instances, blocked) ==
  /\ blocked \subseteq {instances[i].stem : i \in 1 .. Len(instances)}
  /\ \A i \in 1 .. Len(instances) :
       instances[i].status = "failed" => instances[i].stem \in blocked

PlayRequest(gen, kind, blocked) ==
  [gen |-> gen, kind |-> kind, rejected |-> blocked # {}]

\* The ended listener. repeatTrack is the value the closure captured.
OnEndedStopsFirst(gen, instances, blocked) ==
  IF loadGeneration # gen
  THEN /\ audioInstances' = instances
       /\ UNCHANGED <<isPlaying, pendingPlays>>
  ELSE /\ isPlaying' = FALSE
       /\ IF generations[gen].repeat
          THEN /\ audioInstances' = PlayAll(SeekAll(instances, 0), blocked)
               /\ pendingPlays' =
                    Append(pendingPlays, PlayRequest(gen, "ended", blocked))
          ELSE /\ audioInstances' = instances
               /\ UNCHANGED pendingPlays
OnEnded(gen, instances, blocked) ==
  IF loadGeneration # gen
  THEN /\ audioInstances' = instances
       /\ UNCHANGED <<isPlaying, pendingPlays>>
  ELSE IF generations[gen].repeat
  THEN /\ audioInstances' = PlayAll(SeekAll(instances, 0), blocked)
       /\ pendingPlays' = Append(pendingPlays, PlayRequest(gen, "ended", blocked))
       /\ UNCHANGED isPlaying
  ELSE /\ audioInstances' = instances
       /\ isPlaying' = FALSE
       /\ UNCHANGED pendingPlays

SetStatus(instances, stem, status) ==
  [i \in 1 .. Len(instances) |->
     IF instances[i].stem = stem
     THEN [instances[i] EXCEPT !.status = status] ELSE instances[i]]

InstanceOf(stem) ==
  audioInstances[CHOOSE i \in 1 .. Len(audioInstances) : audioInstances[i].stem = stem]

\* canplay of the active cue's element for stem s.
CanPlay(s) ==
  /\ s \in InstanceStems
  /\ InstanceOf(s).status # "failed"
  /\ audioInstances' = SetStatus(audioInstances, s, "ready")
  /\ OnCanPlay(loadGeneration)
  /\ lastOp' = Op("canplay", loadGeneration)
  /\ UNCHANGED <<cues, db, orphans, currentCueIndex, loadGeneration, generations, activeUrls,
                 isPlaying, currentTime, duration, error, repeatTrack, autoNext, waveforms,
                 masterVolume, isMasterMuted, mixerState, pendingPlays>>

\* timeupdate of the reference handle, reporting its position.
TimeUpdate ==
  /\ audioInstances # <<>>
  /\ OnTimeUpdate(loadGeneration, audioInstances[1].pos)
  /\ lastOp' = Op("timeupdate", loadGeneration)
  /\ UNCHANGED <<cues, db, orphans, currentCueIndex, loadGeneration, generations,
                 audioInstances, activeUrls, isPlaying, duration, error,
                 isLoading, repeatTrack, autoNext, waveforms, masterVolume, isMasterMuted,
                 mixerState, loadedCount, pendingPlays>>

\* durationchange of the reference handle.
DurationChange ==
  /\ audioInstances # <<>>
  /\ audioInstances[1].status # "failed"
  /\ OnDurationChange(loadGeneration, MaxTime)
  /\ lastOp' = Op("durationchange", loadGeneration)
  /\ UNCHANGED <<cues, db, orphans, currentCueIndex, loadGeneration, generations,
                 audioInstances, activeUrls, isPlaying, currentTime, error,
                 isLoading, repeatTrack, autoNext, waveforms, masterVolume, isMasterMuted,
                 mixerState, loadedCount, pendingPlays>>

\* error of an element of the active cue: it stops loading or playing for
\* good; only the reference handle has a listener.
MediaError(s) ==
  /\ s \in InstanceStems
  /\ InstanceOf(s).status # "failed"
  /\ audioInstances' = SetStatus(audioInstances, s, "failed")
  /\ IF s = RefStem THEN OnError(loadGeneration) ELSE UNCHANGED error
  /\ lastOp' = Op("error", loadGeneration)
  /\ UNCHANGED <<cues, db, orphans, currentCueIndex, loadGeneration, generations, activeUrls,
                 isPlaying, currentTime, duration, isLoading, repeatTrack, autoNext, waveforms,
                 masterVolume, isMasterMuted, mixerState, loadedCount,
                 pendingPlays>>

\* An element of the active cue reaches its end: the host fires timeupdate,
\* pauses the element and fires ended, in one task.
EndOfTrack(s) ==
  /\ s \in InstanceStems
  /\ ~InstanceOf(s).paused /\ InstanceOf(s).pos = InstanceOf(s).len
  /\ InstanceOf(s).status = "ready"
  /\ LET ended == [i \in 1 .. Len(audioInstances) |->
                     IF audioInstances[i].stem = s
                     THEN [audioInstances[i] EXCEPT !.paused = TRUE]
                     ELSE audioInstances[i]]
     IN IF s = RefStem
        THEN /\ OnTimeUpdate(loadGeneration, InstanceOf(s).len)
             /\ \E blocked \in SUBSET InstanceStems :
                  /\ Blockable(ended, blocked)
                  /\ generations[loadGeneration].repeat
                       => Len(pendingPlays) < MaxPending
                  /\ ~generations[loadGeneration].repeat => blocked = {}
                  /\ OnEnded(loadGeneration, ended, blocked)
        ELSE /\ audioInstances' = ended
             /\ UNCHANGED <<currentTime, isPlaying, pendingPlays>>
  /\ lastOp' = Op(IF s = RefStem THEN "refEnded" ELSE "ended", loadGeneration)
  /\ UNCHANGED <<cues, db, orphans, currentCueIndex, loadGeneration, generations, activeUrls,
                 duration, error, isLoading, repeatTrack, autoNext, waveforms, masterVolume,
                 isMasterMuted, mixerState, loadedCount>>

\* The events of elements that an earlier activation g built and that loadCue
\* has since dropped from audioInstances: they keep loading and may still
\* deliver what the host had queued.  Their listeners are the same closures,
\* over g.
StaleCanPlay(g) ==
  /\ IsStale(g)
  /\ OnCanPlay(g)
  /\ lastOp' = Op("canplay", g)
  /\ UNCHANGED <<cues, db, orphans, currentCueIndex, loadGeneration, generations,
                 audioInstances, activeUrls, isPlaying, currentTime, duration,
                 error, repeatTrack, autoNext, waveforms, masterVolume, isMasterMuted, mixerState,
                 pendingPlays>>

StaleTimeUpdate(g, t) ==
  /\ IsStale(g)
  /\ OnTimeUpdate(g, t)
  /\ lastOp' = Op("timeupdate", g)
  /\ UNCHANGED <<cues, db, orphans, currentCueIndex, loadGeneration, generations,
                 audioInstances, activeUrls, isPlaying, duration, error,
                 isLoading, repeatTrack, autoNext, waveforms, masterVolume, isMasterMuted,
                 mixerState, loadedCount, pendingPlays>>

StaleDurationChange(g) ==
  /\ IsStale(g)
  /\ OnDurationChange(g, MaxTime)
  /\ lastOp' = Op("durationchange", g)
  /\ UNCHANGED <<cues, db, orphans, currentCueIndex, loadGeneration, generations,
                 audioInstances, activeUrls, isPlaying, currentTime, error,
                 isLoading, repeatTrack, autoNext, waveforms, masterVolume, isMasterMuted,
                 mixerState, loadedCount, pendingPlays>>

StaleError(g) ==
  /\ IsStale(g)
  /\ OnError(g)
  /\ lastOp' = Op("error", g)
  /\ UNCHANGED <<cues, db, orphans, currentCueIndex, loadGeneration, generations,
                 audioInstances, activeUrls, isPlaying, currentTime, duration,
                 isLoading, repeatTrack, autoNext, waveforms, masterVolume, isMasterMuted,
                 mixerState, loadedCount, pendingPlays>>

StaleEnded(g) ==
  /\ IsStale(g)
  /\ OnTimeUpdate(g, MaxTime)
  /\ OnEnded(g, audioInstances, {})
  /\ lastOp' = Op("ended", g)
  /\ UNCHANGED <<cues, db, orphans, currentCueIndex, loadGeneration, generations, activeUrls,
                 duration, error, isLoading, repeatTrack, autoNext, waveforms, masterVolume,
                 isMasterMuted, mixerState, loadedCount>>

\* One second of playback: every sounding element moves on.  The outcome
\* of a play request arrives well within the second.
Tick ==
  /\ pendingPlays = <<>>
  /\ \E i \in 1 .. Len(audioInstances) :
       /\ ~audioInstances[i].paused /\ audioInstances[i].status = "ready"
       /\ audioInstances[i].pos < audioInstances[i].len
  /\ audioInstances' =
       [i \in 1 .. Len(audioInstances) |->
          IF ~audioInstances[i].paused /\ audioInstances[i].status = "ready"
             /\ audioInstances[i].pos < audioInstances[i].len
          THEN [audioInstances[i] EXCEPT !.pos = @ + 1]
          ELSE audioInstances[i]]
  /\ lastOp' = Op("tick", loadGeneration)
  /\ UNCHANGED <<cues, db, orphans, currentCueIndex, loadGeneration, generations, activeUrls,
                 isPlaying, currentTime, duration, error, isLoading, repeatTrack, autoNext, waveforms,
                 masterVolume, isMasterMuted, mixerState, loadedCount,
                 pendingPlays>>

\* ------------------------------------------------------------ Transport
\* togglePlay; the play button is disabled while isLoading.  The host
\* refuses the play() requests of the stems in blocked.
TogglePlayWith(blocked) ==
  /\ ~isLoading
  /\ IF Len(audioInstances) = 0
     THEN blocked = {} /\ UNCHANGED <<audioInstances, isPlaying, pendingPlays>>
     ELSE IF isPlaying
     THEN /\ blocked = {}
          /\ audioInstances' = PauseAll(audioInstances)
          /\ pendingPlays' = RejectPending(pendingPlays, audioInstances, loadGeneration)
          /\ isPlaying' = FALSE
     ELSE /\ Len(pendingPlays) < MaxPending
          /\ Blockable(audioInstances, blocked)
          /\ audioInstances' = PlayAll(audioInstances, blocked)
          /\ pendingPlays' =
               Append(pendingPlays, PlayRequest(loadGeneration, "toggle", blocked))
          /\ UNCHANGED isPlaying
  /\ lastOp' = Op("togglePlay", loadGeneration)
  /\ UNCHANGED <<cues, db, orphans, currentCueIndex, loadGeneration, generations, activeUrls,
                 currentTime, duration, error, isLoading, repeatTrack, autoNext, waveforms,
                 masterVolume, isMasterMuted, mixerState, loadedCount>>

TogglePlay == \E blocked \in SUBSET AllStemIds : TogglePlayWith(blocked)

\* Promise.all(promises).then(() => setIsPlaying(true)).catch(e => {
\*   setError("Playback prevented."); setIsPlaying(false); })
OnTogglePlaySettledAlways(request) ==
  isPlaying' = TRUE /\ UNCHANGED error
OnTogglePlaySettled(request) ==
  IF request.rejected
  THEN error' = "Playback prevented." /\ isPlaying' = FALSE
  ELSE isPlaying' = TRUE /\ UNCHANGED error

\* Promise.all(promises).catch(() => setIsPlaying(false))   (ended listener)
OnRepeatSettled(request) ==
  IF request.rejected
  THEN isPlaying' = FALSE /\ UNCHANGED error
  ELSE UNCHANGED <<isPlaying, error>>

RemoveAt(seq, i) == SubSeq(seq, 1, i - 1) \o SubSeq(seq, i + 1, Len(seq))

\* The outcome of an outstanding Promise.all of play() requests arrives.
PlaySettled(i) ==
  /\ i \in 1 .. Len(pendingPlays)
  /\ IF pendingPlays[i].kind = "toggle"
     THEN OnTogglePlaySettled(pendingPlays[i])
     ELSE OnRepeatSettled(pendingPlays[i])
  /\ pendingPlays' = RemoveAt(pendingPlays, i)
  /\ lastOp' = Op("playSettled", pendingPlays[i].gen)
  /\ UNCHANGED <<cues, db, orphans, currentCueIndex, loadGeneration, generations,
                 audioInstances, activeUrls, currentTime, duration, isLoading,
                 repeatTrack, autoNext, waveforms, masterVolume, isMasterMuted, mixerState,
                 loadedCount>>

\* audioInstances.current.forEach(audio => {
\*   audio.pause(); audio.currentTime = 0; })
StopAllKeepsPosition(instances) == PauseAll(instances)
StopAll(instances) == SeekAll(PauseAll(instances), 0)

\* stop
StopBody ==
  /\ audioInstances' = StopAll(audioInstances)
  /\ pendingPlays' = RejectPending(pendingPlays, audioInstances, loadGeneration)
  /\ isPlaying' = FALSE
  /\ currentTime' = 0

Stop ==
  /\ loadGeneration > 0
  /\ StopBody
  /\ lastOp' = Op("stop", loadGeneration)
  /\ UNCHANGED <<cues, db, orphans, currentCueIndex, loadGeneration, generations, activeUrls,
                 duration, error, isLoading, repeatTrack, autoNext, waveforms, masterVolume,
                 isMasterMuted, mixerState, loadedCount>>

\* setCurrentTime(newTime); audio.currentTime = newTime on every element
SeekTo(newTime) ==
  /\ currentTime' = newTime
  /\ audioInstances' = SeekAll(audioInstances, newTime)

\* handleWaveformSeek(percentage): newTime = percentage * (duration || 0),
\* with percentage in [0, 1]
HandleWaveformSeek(newTime) ==
  /\ loadGeneration > 0
  /\ newTime \in 0 .. duration
  /\ SeekTo(newTime)
  /\ lastOp' = Op("seek", loadGeneration)
  /\ UNCHANGED <<cues, db, orphans, currentCueIndex, loadGeneration, generations, activeUrls,
                 isPlaying, duration, error, isLoading, repeatTrack, autoNext, waveforms,
                 masterVolume, isMasterMuted, mixerState, loadedCount,
                 pendingPlays>>

\* A lane is LaneWidth pixels wide, one pixel per second of the longest
\* cue, so that every pixel stands for a whole second.
LaneWidth == MaxTime

\* handleLaneClick: x = e.clientX - rect.left;
\* percentage = Math.max(0, Math.min(1, x / rect.width)), here in pixels
\* out of width.
PercentageUnclamped(x, width) == x
Percentage(x, width) ==
  LET least == IF x < width THEN x ELSE width
  IN IF least > 0 THEN least ELSE 0

\* A click at x pixels from the left edge of a lane, then onSeek(percentage):
\* handleWaveformSeek with newTime = percentage * (duration || 0).
HandleLaneClick(x) ==
  /\ loadGeneration > 0
  /\ audioInstances # <<>>
  /\ SeekTo((Percentage(x, LaneWidth) * duration) \div LaneWidth)
  /\ lastOp' = [name |-> "laneClick", stale |-> FALSE, x |-> x]
  /\ UNCHANGED <<cues, db, orphans, currentCueIndex, loadGeneration, generations, activeUrls,
                 isPlaying, duration, error, isLoading, repeatTrack, autoNext,
                 waveforms, masterVolume, isMasterMuted, mixerState,
                 loadedCount, pendingPlays>>

\* handleNext
HandleNext ==
  /\ loadGeneration > 0
  /\ IF currentCueIndex < Len(cues)
     THEN /\ loadGeneration < MaxGen
          /\ currentCueIndex' = currentCueIndex + 1
          /\ \E bad \in SUBSET StemIdsOf(cues[currentCueIndex + 1]) :
               LoadCue(currentCueIndex + 1, bad)
          /\ lastOp' = Op("loadCue", loadGeneration)
     ELSE /\ isPlaying' = FALSE
          /\ lastOp' = Op("next", loadGeneration)
          /\ UNCHANGED <<cues, db, orphans, currentCueIndex, loadGeneration, generations,
                         audioInstances, activeUrls, currentTime, duration,
                         error, isLoading, repeatTrack, autoNext, waveforms, masterVolume,
                         isMasterMuted, mixerState, loadedCount, pendingPlays>>

\* handlePrev
HandlePrevAlwaysBack ==
  /\ loadGeneration > 0
  /\ currentCueIndex > 1
  /\ loadGeneration < MaxGen
  /\ currentCueIndex' = currentCueIndex - 1
  /\ \E bad \in SUBSET StemIdsOf(cues[currentCueIndex - 1]) :
       LoadCue(currentCueIndex - 1, bad)
  /\ lastOp' = Op("loadCue", loadGeneration)
HandlePrev ==
  /\ loadGeneration > 0
  /\ IF currentTime > PrevRestartAfter
     THEN /\ StopBody
          /\ lastOp' = Op("prev", loadGeneration)
          /\ UNCHANGED <<cues, db, orphans, currentCueIndex, loadGeneration, generations,
                         activeUrls, duration, error, isLoading, repeatTrack, autoNext, waveforms,
                         masterVolume, isMasterMuted, mixerState, loadedCount>>
     ELSE /\ currentCueIndex > 1
          /\ loadGeneration < MaxGen
          /\ currentCueIndex' = currentCueIndex - 1
          /\ \E bad \in SUBSET StemIdsOf(cues[currentCueIndex - 1]) :
               LoadCue(currentCueIndex - 1, bad)
          /\ lastOp' = Op("loadCue", loadGeneration)

\* ------------------------------------------------------------- cue list
\* cues[idx], undefined (NoCue) out of range
CueAt(list, idx) == IF idx \in 1 .. Len(list) THEN list[idx] ELSE NoCue

\* The load effect's dependencies: [currentCueIndex, currentCue?.id]
EffectRerunsIndexOnly(list, idx) == idx # currentCueIndex
EffectReruns(list, idx) ==
  idx # currentCueIndex \/ CueAt(list, idx) # currentCue

\* App shows the setup screen and PlayerScreen unmounts: its state is gone,
\* and a later PlayerScreen starts from its initial values.
Unmounted ==
  /\ currentCueIndex' = 1
  /\ loadGeneration' = 0
  /\ generations' = <<>>
  /\ orphans' = orphans \cup Teardown(audioInstances, activeUrls)
  /\ audioInstances' = <<>>
  /\ activeUrls' = <<>>
  /\ isPlaying' = FALSE
  /\ currentTime' = 0
  /\ duration' = 0
  /\ error' = NoError
  /\ isLoading' = FALSE
  /\ repeatTrack' = FALSE
  /\ autoNext' = FALSE
  /\ waveforms' = <<>>
  /\ masterVolume' = VolScale
  /\ isMasterMuted' = FALSE
  /\ mixerState' = <<>>
  /\ loadedCount' = 0
  /\ pendingPlays' = <<>>

\* The render that follows setCues(list) and setCurrentCueIndex(idx), batched
\* in one handler, and the load effect when its dependencies changed: the
\* effect's cleanup pauses the elements, then loadCue runs, and returns at
\* once when there is no current cue.
SetCues(list, idx) ==
  /\ cues' = list
  /\ IF ~EffectReruns(list, idx)
     THEN UNCHANGED <<orphans, currentCueIndex, loadGeneration, generations,
                      audioInstances, activeUrls, isPlaying, currentTime,
                      duration, error, isLoading, repeatTrack, autoNext,
                      waveforms, masterVolume, isMasterMuted, mixerState,
                      loadedCount, pendingPlays>>
     ELSE /\ currentCueIndex' = idx
          /\ IF CueAt(list, idx) = NoCue
             THEN /\ audioInstances' = PauseAll(audioInstances)
                  /\ pendingPlays' =
                       RejectPending(pendingPlays, audioInstances, loadGeneration)
                  /\ waveforms' = <<>>
                  /\ UNCHANGED <<orphans, loadGeneration, generations, activeUrls,
                                 isPlaying, currentTime, duration, error,
                                 isLoading, repeatTrack, autoNext, masterVolume,
                                 isMasterMuted, mixerState, loadedCount>>
             ELSE /\ loadGeneration < MaxGen
                  /\ \E bad \in SUBSET StemIdsOf(CueAt(list, idx)) :
                       Activate(CueAt(list, idx), bad)

\* if (currentCueIndex >= cues.length - 1 && currentCueIndex > 0)
\*   setCurrentCueIndex(prev => prev - 1);   with 1-based indices
IndexAfterRemoveKept(idx, len) == idx
IndexAfterRemove(idx, len) ==
  IF idx >= len /\ idx > 1 THEN idx - 1 ELSE idx

\* handleRemoveCue(cue.id) from the remove button of row r, then the index
\* adjustment; an empty list shows the setup screen.
RemoveCue(r) ==
  /\ loadGeneration > 0
  /\ r \in 1 .. Len(cues)
  /\ LET updated == SelectSeq(cues, LAMBDA c : c # cues[r])
         idx == IndexAfterRemove(currentCueIndex, Len(cues))
     IN /\ IF updated = <<>>
           THEN cues' = updated /\ Unmounted
           ELSE SetCues(updated, idx)
        /\ db' = SaveCuesToDB(db, updated)
  /\ lastOp' = Op("remove", loadGeneration)

\* reordered.splice(from, 1); reordered.splice(to, 0, moved)
SpliceOverwriting(list, from, to) == [list EXCEPT ![to] = list[from]]
Splice(list, from, to) ==
  LET rest == RemoveAt(list, from)
  IN SubSeq(rest, 1, to - 1) \o <<list[from]>> \o SubSeq(rest, to, Len(rest))

\* reordered.findIndex(c => c.id === activeCueId), 0 when there is none
FindIndex(list, cue) ==
  IF \E i \in 1 .. Len(list) : list[i] = cue
  THEN CHOOSE i \in 1 .. Len(list) :
         list[i] = cue /\ \A j \in 1 .. i - 1 : list[j] # cue
  ELSE 0

\* onDragEnd of the row dragged from index from and dropped on index to.
OnDragEnd(from, to) ==
  /\ loadGeneration > 0
  /\ from \in 1 .. Len(cues) /\ to \in 1 .. Len(cues)
  /\ from # to
  /\ LET reordered == Splice(cues, from, to)
         newIdx == FindIndex(reordered, currentCue)
     IN /\ SetCues(reordered, IF newIdx >= 1 THEN newIdx ELSE currentCueIndex)
        /\ db' = SaveCuesToDB(db, reordered)
  /\ lastOp' = Op("reorder", loadGeneration)

\* handleLocalConnect: a folder is imported as a new cue, with a fresh id,
\* at the end of the list; from the setup screen it opens the player.
HandleLocalConnect(newCue) ==
  /\ cues = <<>> \/ loadGeneration > 0
  /\ newCue \in CueIds \ Range(cues)
  /\ SetCues(Append(cues, newCue), currentCueIndex)
  /\ db' = SaveCuesToDB(db, Append(cues, newCue))
  /\ lastOp' = Op("import", loadGeneration)

\* handleClearAll
HandleClearAll ==
  /\ loadGeneration > 0
  /\ cues' = <<>>
  /\ db' = SaveCuesToDB(db, <<>>)
  /\ Unmounted
  /\ lastOp' = Op("clear", loadGeneration)

\* ---------------------------------------------------- Mixer State Store
\* Values the volume sliders are set to in this model.
VolumeInputs == {0, VolScale \div 2, VolScale}

UpdateStemStateAll(stemId, entry) ==
  /\ stemId \in DOMAIN mixerState
  /\ mixerState' = [s \in DOMAIN mixerState |-> entry]
  /\ audioInstances' =
       ApplyVolumes(audioInstances, mixerState', isMasterMuted, masterVolume)
  /\ UNCHANGED <<cues, db, orphans, currentCueIndex, loadGeneration, generations, activeUrls,
                 isPlaying, currentTime, duration, error, isLoading, repeatTrack, autoNext, waveforms,
                 masterVolume, isMasterMuted, loadedCount, pendingPlays>>

\* updateStemState(stemId, updates), then the applyVolumes effect.
UpdateStemState(stemId, entry) ==
  /\ stemId \in DOMAIN mixerState
  /\ mixerState' = [mixerState EXCEPT ![stemId] = entry]
  /\ audioInstances' =
       ApplyVolumes(audioInstances, mixerState', isMasterMuted, masterVolume)
  /\ UNCHANGED <<cues, db, orphans, currentCueIndex, loadGeneration, generations, activeUrls,
                 isPlaying, currentTime, duration, error, isLoading, repeatTrack, autoNext, waveforms,
                 masterVolume, isMasterMuted, loadedCount, pendingPlays>>

\* The volume slider of a lane is disabled while the stem is muted or
\* silenced by another stem's solo.
OnVolumeChange(stemId, v) ==
  /\ stemId \in DOMAIN mixerState
  /\ ~mixerState[stemId].muted
  /\ ~(AnySolo(mixerState) /\ ~mixerState[stemId].soloed)
  /\ UpdateStemState(stemId, [mixerState[stemId] EXCEPT !.volume = v])
  /\ lastOp' = Op("volume", loadGeneration)

OnMuteToggle(stemId) ==
  /\ stemId \in DOMAIN mixerState
  /\ UpdateStemState(stemId, [mixerState[stemId] EXCEPT !.muted = ~@])
  /\ lastOp' = Op("mute", loadGeneration)

OnSoloToggle(stemId) ==
  /\ stemId \in DOMAIN mixerState
  /\ UpdateStemState(stemId, [mixerState[stemId] EXCEPT !.soloed = ~@])
  /\ lastOp' = Op("solo", loadGeneration)

\* setMasterVolume / setIsMasterMuted, then the applyVolumes effect.
SetMaster(vol, muted) ==
  /\ masterVolume' = vol
  /\ isMasterMuted' = muted
  /\ audioInstances' = ApplyVolumes(audioInstances, mixerState, muted, vol)
  /\ lastOp' = Op("master", loadGeneration)
  /\ UNCHANGED <<cues, db, orphans, currentCueIndex, loadGeneration, generations, activeUrls,
                 isPlaying, currentTime, duration, error, isLoading, repeatTrack, autoNext, waveforms,
                 mixerState, loadedCount, pendingPlays>>

SetMasterVolume(v) == v # masterVolume /\ SetMaster(v, isMasterMuted)
ToggleMasterMute == SetMaster(masterVolume, ~isMasterMuted)

\* setRepeatTrack(!repeatTrack)
ToggleRepeat ==
  /\ loadGeneration > 0
  /\ repeatTrack' = ~repeatTrack
  /\ lastOp' = Op("repeat", loadGeneration)
  /\ UNCHANGED <<autoNext, waveforms, cues, db, orphans, currentCueIndex, loadGeneration, generations,
                 audioInstances, activeUrls, isPlaying, currentTime, duration,
                 error, isLoading, masterVolume, isMasterMuted, mixerState,
                 loadedCount, pendingPlays>>

\* ------------------------------------------------------------ Waveform
\* Samples are floats between -1.0 and 1.0, full scale (let min = 1.0;
\* let max = -1.0); here -1, 0 and 1.
FullScale == 1
SampleValues == -FullScale .. FullScale
SampleSeqs == UNION {[1 .. n -> SampleValues] : n \in 1 .. MaxSamples}

\* Math.ceil(channelData.length / width)
CeilDiv(a, b) == (a + b - 1) \div b

\* for (let j = 0; j < step; j++) { const datum = channelData[(i*step)+j];
\*   if (datum < min) min = datum; if (datum > max) max = datum; }
\* Beyond the end of channelData datum is undefined and both tests fail.
RECURSIVE ScanWindow(_, _, _, _, _)
ScanWindow(data, base, step, j, acc) ==
  IF j >= step THEN acc
  ELSE IF base + j >= Len(data) THEN ScanWindow(data, base, step, j + 1, acc)
  ELSE LET datum == data[base + j + 1]
       IN ScanWindow(data, base, step, j + 1,
                     [min |-> IF datum < acc.min THEN datum ELSE acc.min,
                      max |-> IF datum > acc.max THEN datum ELSE acc.max])

\* for (let i = 0; i < width; i++) { ...; ctx.fillRect(i, ...) }: the pairs
\* drawn, column by column.
RECURSIVE DrawColumnsWhileData(_, _, _, _, _)
DrawColumnsWhileData(data, width, step, i, drawn) ==
  IF i >= width \/ i * step >= Len(data) THEN drawn
  ELSE DrawColumnsWhileData(data, width, step, i + 1,
         Append(drawn, ScanWindow(data, i * step, step, 0,
                                  [min |-> FullScale, max |-> -FullScale])))
RECURSIVE DrawColumns(_, _, _, _, _)
DrawColumns(data, width, step, i, drawn) ==
  IF i >= width THEN drawn
  ELSE DrawColumns(data, width, step, i + 1,
         Append(drawn, ScanWindow(data, i * step, step, 0,
                                  [min |-> FullScale, max |-> -FullScale])))

Peaks(data, width) ==
  DrawColumns(data, width, CeilDiv(Len(data), width), 0, <<>>)

\* draw() of the lane of stem s runs to its end: the file decoded to data
\* and the canvas is width columns wide; setMaskUrl, setStatus('ready').
DrawPeaks(s, data, width) ==
  /\ s \in DOMAIN waveforms
  /\ waveforms[s].running
  /\ waveforms' = [waveforms EXCEPT ![s] =
                     [status |-> "ready", mask |-> Peaks(data, width),
                      data |-> data, width |-> width, shows |-> "present",
                      running |-> FALSE, slow |-> FALSE,
                      late |-> waveforms[s].late]]
  /\ lastOp' = Op("draw", loadGeneration)
  /\ UNCHANGED <<cues, db, orphans, currentCueIndex, loadGeneration, generations,
                 audioInstances, activeUrls, isPlaying, currentTime, duration,
                 error, isLoading, repeatTrack, autoNext, masterVolume,
                 isMasterMuted, mixerState, loadedCount, pendingPlays>>

\* catch (e) { console.warn(...); setStatus('error'); }
OnWaveformErrorShown(s) ==
  /\ waveforms' = [waveforms EXCEPT ![s].status = "error",
                                    ![s].running = FALSE, ![s].slow = FALSE]
  /\ error' = "Playback Error"
OnWaveformError(s) ==
  /\ waveforms' = [waveforms EXCEPT ![s].status = "error",
                                    ![s].running = FALSE, ![s].slow = FALSE]
  /\ UNCHANGED error

\* draw() of the lane of stem s fails: fetch, arrayBuffer or decodeAudioData
\* throws, all before the canvas is touched.
DrawFailed(s) ==
  /\ s \in DOMAIN waveforms
  /\ waveforms[s].running
  /\ OnWaveformError(s)
  /\ lastOp' = Op("drawFailed", loadGeneration)
  /\ UNCHANGED <<cues, db, orphans, currentCueIndex, loadGeneration, generations,
                 audioInstances, activeUrls, isPlaying, currentTime, duration,
                 isLoading, repeatTrack, autoNext, masterVolume,
                 isMasterMuted, mixerState, loadedCount, pendingPlays>>

\* The draw() that the lane of stem s started for the file it had before
\* runs to its end: draw() has no test for a newer run, so it paints the
\* lane's canvas and calls setMaskUrl and setStatus('ready') all the same.
DrawPeaksLate(s, data, width) ==
  /\ s \in DOMAIN waveforms
  /\ waveforms[s].late
  /\ waveforms' = [waveforms EXCEPT ![s] =
                     [status |-> "ready", mask |-> Peaks(data, width),
                      data |-> data, width |-> width, shows |-> "earlier",
                      running |-> waveforms[s].running,
                      slow |-> waveforms[s].slow, late |-> FALSE]]
  /\ lastOp' = Op("drawLate", loadGeneration)
  /\ UNCHANGED <<cues, db, orphans, currentCueIndex, loadGeneration, generations,
                 audioInstances, activeUrls, isPlaying, currentTime, duration,
                 error, isLoading, repeatTrack, autoNext, masterVolume,
                 isMasterMuted, mixerState, loadedCount, pendingPlays>>

\* ------------------------------------------- the Auto-Next build
\* setAutoNext(!autoNext)
ToggleAutoNext ==
  /\ loadGeneration > 0
  /\ autoNext' = ~autoNext
  /\ lastOp' = Op("autoNext", loadGeneration)
  /\ UNCHANGED <<waveforms, cues, db, orphans, currentCueIndex, loadGeneration, generations,
                 audioInstances, activeUrls, isPlaying, currentTime, duration,
                 error, isLoading, repeatTrack, masterVolume, isMasterMuted,
                 mixerState, loadedCount, pendingPlays>>

\* The ended listener of the build with the Auto-Next switch:
\*   () => { setIsPlaying(false); if (autoNext) handleNext(); }
\* autoNext, and the currentCueIndex and cues that handleNext tests, are
\* those of the render in which the cue was loaded (seen); the index is the
\* current one, the effect having run again whenever it changed.  After
\* setCurrentCueIndex(prev => prev + 1) the load effect runs again: its
\* cleanup pauses the elements, and loadCue returns at once when no cue
\* stands at the new index.
OnEndedAutoNext(ended) ==
  LET seen == generations[loadGeneration]
  IN IF seen.advance /\ currentCueIndex < seen.count
     THEN /\ currentCueIndex' = currentCueIndex + 1
          /\ IF CueAt(cues, currentCueIndex + 1) = NoCue
             THEN /\ isPlaying' = FALSE
                  /\ audioInstances' = PauseAll(ended)
                  /\ pendingPlays' =
                       RejectPending(pendingPlays, ended, loadGeneration)
                  /\ currentTime' = ended[1].len
                  /\ waveforms' = <<>>
                  /\ UNCHANGED <<cues, db, orphans, loadGeneration, generations, activeUrls,
                                 duration, error, isLoading, repeatTrack,
                                 autoNext, masterVolume, isMasterMuted,
                                 mixerState, loadedCount>>
             ELSE /\ loadGeneration < MaxGen
                  /\ \E bad \in SUBSET StemIdsOf(cues[currentCueIndex + 1]) :
                       LoadCue(currentCueIndex + 1, bad)
     ELSE /\ isPlaying' = FALSE
          /\ audioInstances' = ended
          /\ currentTime' = ended[1].len
          /\ UNCHANGED <<cues, db, orphans, currentCueIndex, loadGeneration, generations,
                         activeUrls, duration, error, isLoading, repeatTrack,
                         autoNext, waveforms, masterVolume, isMasterMuted, mixerState,
                         loadedCount, pendingPlays>>

\* The reference handle of the active cue reaches its end in that build:
\* the host fires timeupdate, pauses the element and fires ended.
EndOfTrackAutoNext ==
  /\ audioInstances # <<>>
  /\ audioInstances[1].gen = loadGeneration
  /\ ~audioInstances[1].paused /\ audioInstances[1].pos = audioInstances[1].len
  /\ audioInstances[1].status = "ready"
  /\ OnEndedAutoNext([audioInstances EXCEPT ![1].paused = TRUE])
  /\ lastOp' = Op("refEnded", loadGeneration)

\* ------------------------------------------------------ specifications
\* The cue session: the operator picks cues in the sidebar, elements load,
\* fail and deliver their events, superseded ones included, and play
\* requests are made and settled.  No time passes, so every element of the
\* active cue stays at 0.
Next ==
  \/ Mount
  \/ \E idx \in 1 .. NumCues : loadGeneration <= MaxSuperseded /\ SelectCue(idx)
  \/ \E s \in AllStemIds : CanPlay(s)
  \/ TimeUpdate
  \/ DurationChange
  \/ \E s \in AllStemIds : MediaError(s)
  \/ \E g \in 1 .. MaxGen : StaleCanPlay(g)
  \/ \E g \in 1 .. MaxGen : StaleTimeUpdate(g, MaxTime)
  \/ \E g \in 1 .. MaxGen : StaleDurationChange(g)
  \/ \E g \in 1 .. MaxGen : StaleError(g)
  \/ \E g \in 1 .. MaxGen : StaleEnded(g)
  \/ TogglePlay
  \/ \E i \in 1 .. MaxPending : PlaySettled(i)

Spec == Init /\ [][Next]_vars

\* The mixer: the first cue is loaded and the operator works the lanes'
\* volume, mute and solo controls and the master controls.
NextMixer ==
  \/ MountWith({})
  \/ \E s \in AllStemIds, v \in VolumeInputs : OnVolumeChange(s, v)
  \/ \E s \in AllStemIds : OnMuteToggle(s)
  \/ \E s \in AllStemIds : OnSoloToggle(s)
  \/ \E v \in VolumeInputs : SetMasterVolume(v)
  \/ ToggleMasterMute

SpecMixer == Init /\ [][NextMixer]_vars

\* Playback of the first cue: the cue loads, the operator plays, pauses,
\* seeks and stops, time passes and the tracks run to their end.
NextTransport ==
  \/ \E short \in SUBSET AllStemIds : MountFiles(short)
  \/ \E s \in AllStemIds : CanPlay(s)
  \/ TimeUpdate
  \/ DurationChange
  \/ \E s \in AllStemIds : EndOfTrack(s)
  \/ Tick
  \/ TogglePlay
  \/ \E i \in 1 .. MaxPending : PlaySettled(i)
  \/ Stop
  \/ \E t \in Times : HandleWaveformSeek(t)

SpecTransport == Init /\ [][NextTransport]_vars

\* The mixer worked at the low end of the sliders: one step (0.05) above 0,
\* where two resolved gains can lie closer together than applyVolumes'
\* threshold.
LowVolumeInputs == {0, 1, VolScale}

NextGain ==
  \/ MountWith({})
  \/ \E s \in AllStemIds, v \in LowVolumeInputs : OnVolumeChange(s, v)
  \/ \E s \in AllStemIds : OnMuteToggle(s)
  \/ \E s \in AllStemIds : OnSoloToggle(s)
  \/ \E v \in LowVolumeInputs : SetMasterVolume(v)
  \/ ToggleMasterMute

SpecGain == Init /\ [][NextGain]_vars

\* The cue list: the operator selects, removes, drags and imports cues,
\* clears the list, and mutes and unmutes stems of the active cue.
NextList ==
  \/ Mount
  \/ \E idx \in 1 .. NumCues : SelectCue(idx)
  \/ HandleNext
  \/ HandlePrev
  \/ \E r \in 1 .. NumCues : RemoveCue(r)
  \/ \E from, to \in 1 .. NumCues : OnDragEnd(from, to)
  \/ \E c \in CueIds : HandleLocalConnect(c)
  \/ HandleClearAll
  \/ \E s \in AllStemIds : OnMuteToggle(s)

SpecList == Init /\ [][NextList]_vars

\* Switching cues in mid-use: the first cue is loaded, played, sought to its
\* end and muted, and the operator selects another cue, whose stems may fail
\* to load.
NextSwitch ==
  \/ MountWith({})
  \/ \E idx \in 1 .. NumCues : loadGeneration <= MaxSuperseded /\ SelectCue(idx)
  \/ \E s \in AllStemIds : CanPlay(s)
  \/ DurationChange
  \/ HandleWaveformSeek(MaxTime)
  \/ TogglePlayWith({})
  \/ \E i \in 1 .. MaxPending : PlaySettled(i)
  \/ \E s \in AllStemIds : OnMuteToggle(s)

SpecSwitch == Init /\ [][NextSwitch]_vars

\* Playing a cue to its end, with the repeat button switched on or off
\* before or after the cue was loaded; the sought position is the end.
NextRepeat ==
  \/ MountWith({})
  \/ loadGeneration <= MaxSuperseded /\ HandleNext
  \/ \E s \in AllStemIds : CanPlay(s)
  \/ DurationChange
  \/ HandleWaveformSeek(MaxTime)
  \/ TogglePlayWith({})
  \/ \E i \in 1 .. MaxPending : PlaySettled(i)
  \/ \E s \in AllStemIds : EndOfTrack(s)
  \/ ToggleRepeat

SpecRepeat == Init /\ [][NextRepeat]_vars

\* The build with the Auto-Next switch: cues are played to their end with
\* the switch on or off, and cues are removed from the list meanwhile.
NextAutoNext ==
  \/ MountWith({})
  \/ loadGeneration <= MaxSuperseded /\ HandleNext
  \/ \E s \in AllStemIds : CanPlay(s)
  \/ DurationChange
  \/ HandleWaveformSeek(MaxTime)
  \/ TogglePlayWith({})
  \/ \E i \in 1 .. MaxPending : PlaySettled(i)
  \/ EndOfTrackAutoNext
  \/ ToggleAutoNext
  \/ \E r \in 1 .. NumCues : RemoveCue(r)

SpecAutoNext == Init /\ [][NextAutoNext]_vars

\* The master controls across cue switches: the operator sets the master
\* volume, mutes the master and the stems, and selects cues, whose stems may
\* fail to load.
MasterInputs == {0, 1, VolScale - 1, VolScale}

NextMaster ==
  \/ Mount
  \/ \E idx \in 1 .. NumCues : SelectCue(idx)
  \/ \E v \in MasterInputs : SetMasterVolume(v)
  \/ ToggleMasterMute
  \/ \E s \in AllStemIds : OnMuteToggle(s)

SpecMaster == Init /\ [][NextMaster]_vars

\* Peak extraction: the lane of the first cue's first stem draws sample
\* sequences of every length up to MaxSamples on canvases of every width up
\* to MaxWidth; selecting a cue makes the lane draw again.
NextPeaks ==
  \/ MountWith({})
  \/ \E idx \in 1 .. NumCues : SelectCue(idx)
  \/ \E data \in SampleSeqs, width \in 1 .. MaxWidth :
       DrawPeaks(StemsOf(cues[1])[1], data, width)

SpecPeaks == Init /\ [][NextPeaks]_vars

\* Waveforms during a session: the lanes of the active cue draw or fail to
\* draw while the cue loads and plays and while the operator steps to the
\* next cue; the operator presses play or pause once the previous play
\* request has settled.
NextWaveform ==
  \/ MountWith({})
  \/ loadGeneration <= MaxSuperseded /\ HandleNext
  \/ \E s \in AllStemIds : CanPlay(s)
  \/ pendingPlays = <<>> /\ TogglePlayWith({})
  \/ \E i \in 1 .. MaxPending : PlaySettled(i)
  \/ \E s \in AllStemIds : DrawPeaks(s, <<-FullScale, FullScale>>, 1)
  \/ \E s \in AllStemIds : DrawFailed(s)

SpecWaveform == Init /\ [][NextWaveform]_vars

\* Clicks on the lanes, on and off the lane's extent, before and after the
\* cue's duration is known, paused and playing.
NextSeek ==
  \/ MountWith({})
  \/ \E s \in AllStemIds : CanPlay(s)
  \/ DurationChange
  \/ TimeUpdate
  \/ Tick
  \/ TogglePlayWith({})
  \/ \E i \in 1 .. MaxPending : PlaySettled(i)
  \/ \E x \in -1 .. LaneWidth + 1 : HandleLaneClick(x)

SpecSeek == Init /\ [][NextSeek]_vars

\* The cue list and the store: the operator imports, removes, drags and
\* clears, and in between switches cues, plays, pauses, stops and seeks.
NextStore ==
  \/ MountWith({})
  \/ loadGeneration <= MaxSuperseded /\ HandleNext
  \/ \E r \in 1 .. NumCues : loadGeneration <= MaxSuperseded /\ RemoveCue(r)
  \/ \E from, to \in 1 .. NumCues :
       loadGeneration <= MaxSuperseded /\ OnDragEnd(from, to)
  \/ \E c \in CueIds : loadGeneration <= MaxSuperseded /\ HandleLocalConnect(c)
  \/ HandleClearAll
  \/ TogglePlayWith({})
  \/ \E i \in 1 .. MaxPending : PlaySettled(i)
  \/ Stop
  \/ \E t \in Times : HandleWaveformSeek(t)

SpecStore == Init /\ [][NextStore]_vars

\* The Next and Previous buttons, pressed while the cue loads, is ready,
\* plays and has been sought to its end.
NextNav ==
  \/ MountWith({})
  \/ (loadGeneration <= MaxSuperseded \/ currentCueIndex = Len(cues))
       /\ HandleNext
  \/ HandlePrev
  \/ \E s \in AllStemIds : CanPlay(s)
  \/ DurationChange
  \/ HandleWaveformSeek(MaxTime)
  \/ TogglePlayWith({})
  \/ \E i \in 1 .. MaxPending : PlaySettled(i)

SpecNav == Init /\ [][NextNav]_vars

\* Lanes whose files decode slowly: the operator steps to the next cue, some
\* of whose stems have the ids of stems of the cue before, while draws are
\* still running, and the draws end in any order.
NextRace ==
  \/ \E slow \in SUBSET AllStemIds : MountDecoding(slow)
  \/ loadGeneration <= MaxSuperseded /\ HandleNext
  \/ \E s \in AllStemIds : CanPlay(s)
  \/ \E s \in AllStemIds : DrawPeaks(s, <<-FullScale, FullScale>>, 1)
  \/ \E s \in AllStemIds : DrawPeaksLate(s, <<0>>, 1)
  \/ \E s \in AllStemIds : DrawFailed(s)

SpecRace == Init /\ [][NextRace]_vars

\* Loading under fair delivery: the host tells, sooner or later, of every
\* element that is still loading either that it can play or that it failed.
\* It owes no second canplay for an element that has reported one.
Settle(s) ==
  /\ s \in InstanceStems
  /\ InstanceOf(s).status = "loading"
  /\ CanPlay(s) \/ MediaError(s)

NextLoading ==
  \/ Mount
  \/ \E idx \in 1 .. NumCues : SelectCue(idx)
  \/ \E s \in AllStemIds : CanPlay(s)
  \/ \E s \in AllStemIds : MediaError(s)
  \/ DurationChange

SpecLoading ==
  /\ Init /\ [][NextLoading]_vars
  /\ WF_vars(Mount)
  /\ \A s \in AllStemIds : WF_vars(Settle(s))

\* ================================================================ claims
\* The session state a callback may touch.
SessionState ==
  <<currentTime, duration, isPlaying, error, isLoading, mixerState,
    audioInstances, loadedCount, pendingPlays>>

\* C1: a timeupdate, durationchange, ended, error or canplay event of an
\* element built by an earlier activation changes nothing of the session:
\* currentTime, duration, isPlaying, error, isLoading, the mixer entries and
\* the elements of audioInstances stay as they are.
C1_StaleEventsDropped ==
  [][(lastOp'.name = "event" /\ lastOp'.stale)
       => UNCHANGED SessionState]_vars

\* A stale event has just been delivered to a session that is ready and
\* playing.
C1_Witness ==
  /\ lastOp = Op("ended", 1)
  /\ loadGeneration > 1
  /\ isPlaying /\ ~isLoading /\ duration = MaxTime

\* C2: whatever activations came before and whatever their elements deliver
\* afterwards, audioInstances holds only elements built by the current
\* activation for stems of the current cue, one for each stem when no
\* acquisition failed, the mixer entries are the current cue's, and every
\* URL still held was created by the current activation.
C2_OnlyCurrentCueAttached ==
  loadGeneration > 0 =>
    /\ \A i \in 1 .. Len(audioInstances) :
         /\ audioInstances[i].gen = loadGeneration
         /\ audioInstances[i].cue = currentCue
         /\ audioInstances[i].stem \in StemIdsOf(currentCue)
    /\ \A i, j \in 1 .. Len(audioInstances) :
         audioInstances[i].stem = audioInstances[j].stem => i = j
    /\ (Len(audioInstances) = MaxStems
          => [i \in 1 .. Len(audioInstances) |-> audioInstances[i].stem]
               = StemsOf(currentCue))
    /\ DOMAIN mixerState = StemIdsOf(currentCue)
    /\ \A i \in 1 .. Len(activeUrls) :
         activeUrls[i].gen = loadGeneration /\ activeUrls[i].cue = currentCue

\* Cue B was activated while cue A was loading, B has become ready, and a
\* event of one of A's elements has just arrived.
C2_Witness ==
  /\ loadGeneration = 2
  /\ currentCue # cues[1]
  /\ Len(audioInstances) = MaxStems
  /\ ~isLoading
  /\ lastOp = Op("canplay", 1)

\* C3: the outcome of a play request issued under an earlier generation
\* sets neither isPlaying nor an error message.
C3_StalePlayOutcomeDropped ==
  [][(lastOp'.name = "playSettled" /\ lastOp'.stale)
       => UNCHANGED <<isPlaying, error>>]_vars

\* C4: when a play request of the active cue has ended with a rejection,
\* isPlaying is false and no element is sounding.
C4_NoPartialPlay ==
  (lastOp = Op("playSettled", loadGeneration)
     /\ error = "Playback prevented.")
    => (~isPlaying /\ ~AnySounding(audioInstances))

\* Some stem of the active cue has no usable element: none was built for it,
\* or the one built reported an error.
AcquisitionFailed ==
  /\ loadGeneration > 0
  /\ \/ Len(audioInstances) < MaxStems
     \/ \E i \in 1 .. Len(audioInstances) : audioInstances[i].status = "failed"

\* C5: when the acquisition of some stem of the active cue has failed, the
\* session shows an error and audioInstances is empty.
C5_FailedLoadEmptiesTransport ==
  AcquisitionFailed => (error # NoError /\ audioInstances = <<>>)

\* C6: while a stem of the active cue has failed to load, no play request
\* is outstanding for the cue's elements and none of them is sounding.
C6_NoPlayWhileFailed ==
  AcquisitionFailed =>
    /\ ~AnySounding(audioInstances)
    /\ \A i \in 1 .. Len(pendingPlays) : pendingPlays[i].gen # loadGeneration

\* The gain applyVolumes resolves for a stem in the current state.
ResolvedGain(stemId) ==
  Resolve(mixerState, isMasterMuted, masterVolume, stemId)

\* C7: while the master is muted every stem resolves to gain 0, whatever
\* the stems' volume, mute and solo values.
C7_MasterMuteSilencesAll ==
  isMasterMuted => \A s \in DOMAIN mixerState : ResolvedGain(s) = 0

\* The master is muted over a loaded cue with a soloed, unmuted stem at a
\* positive volume and a positive master volume.
C7_Witness ==
  /\ isMasterMuted /\ masterVolume > 0
  /\ Len(audioInstances) = MaxStems
  /\ \E s \in DOMAIN mixerState :
       mixerState[s].soloed /\ ~mixerState[s].muted /\ mixerState[s].volume > 0

\* C8: a stem that is both muted and soloed resolves to gain 0.
C8_SoloNeverOverridesMute ==
  \A s \in DOMAIN mixerState :
    (mixerState[s].muted /\ mixerState[s].soloed) => ResolvedGain(s) = 0

\* A stem is muted and soloed at a positive volume under an unmuted master
\* at a positive volume.
C8_Witness ==
  /\ ~isMasterMuted /\ masterVolume > 0
  /\ Len(audioInstances) = MaxStems
  /\ \E s \in DOMAIN mixerState :
       mixerState[s].muted /\ mixerState[s].soloed /\ mixerState[s].volume > 0

SomeStemSoloed == \E k \in DOMAIN mixerState : mixerState[k].soloed

\* C9: with some stem soloed and the master not muted, every stem that is
\* not soloed resolves to 0 and every soloed stem that is not muted resolves
\* to stemVolume x masterVolume.
C9_SoloSilencesOthers ==
  (SomeStemSoloed /\ ~isMasterMuted) =>
    \A s \in DOMAIN mixerState :
      /\ ~mixerState[s].soloed => ResolvedGain(s) = 0
      /\ (mixerState[s].soloed /\ ~mixerState[s].muted)
           => ResolvedGain(s) = mixerState[s].volume * masterVolume

\* One stem is soloed and audible, another is neither soloed nor muted and
\* has a positive volume.
C9_Witness ==
  /\ ~isMasterMuted /\ masterVolume \in 1 .. VolScale - 1
  /\ Len(audioInstances) = MaxStems
  /\ \E s, t \in DOMAIN mixerState :
       /\ mixerState[s].soloed /\ ~mixerState[s].muted
       /\ mixerState[s].volume \in 1 .. VolScale - 1
       /\ ~mixerState[t].soloed /\ ~mixerState[t].muted
       /\ mixerState[t].volume > 0

NoSoloNoMasterMute == ~isMasterMuted /\ ~SomeStemSoloed

\* C10: with the master not muted and no stem soloed, an unmuted stem
\* resolves to stemVolume x masterVolume, which lies between 0 and full
\* volume, and a muted stem resolves to 0; muting one stem leaves the
\* resolved gain of every other stem as it was.
C10_PlainGains ==
  /\ [](NoSoloNoMasterMute =>
          \A s \in DOMAIN mixerState :
            /\ ResolvedGain(s) \in 0 .. FullVolume
            /\ ResolvedGain(s) =
                 IF mixerState[s].muted THEN 0
                 ELSE mixerState[s].volume * masterVolume)
  /\ [][(lastOp'.name = "mute" /\ NoSoloNoMasterMute) =>
          \A t \in DOMAIN mixerState :
            mixerState'[t] = mixerState[t] =>
              Resolve(mixerState', isMasterMuted', masterVolume', t)
                = ResolvedGain(t)]_vars

\* A stem has just been muted beside an unmuted one, with stem and master
\* volumes strictly between 0 and 1.
C10_Witness ==
  /\ lastOp.name = "mute"
  /\ NoSoloNoMasterMute /\ masterVolume \in 1 .. VolScale - 1
  /\ Len(audioInstances) = MaxStems
  /\ \E s, t \in DOMAIN mixerState :
       /\ mixerState[s].muted
       /\ ~mixerState[t].muted /\ mixerState[t].volume \in 1 .. VolScale - 1

\* C11: after every mixer or master change, the volume of every element in
\* audioInstances equals the gain resolved for its stem, so the element of
\* a muted stem, or any element under a muted master, is at 0.
C11_LiveGainIsResolvedGain ==
  \A i \in 1 .. Len(audioInstances) :
    audioInstances[i].volume = ResolvedGain(audioInstances[i].stem)

\* C12: once the player has run its load effect, and whenever the list is
\* empty, the keys of mixerState are the stem ids of the active cue, and
\* there is no key when no cue is active.
C12_MixerKeysAreActiveStems ==
  (loadGeneration > 0 \/ cues = <<>>) =>
    DOMAIN mixerState =
      (IF currentCue = NoCue THEN {} ELSE StemIdsOf(currentCue))

\* A cue was removed and the cue that took its place in the list has been
\* activated.
C12_Witness ==
  /\ lastOp.name = "remove"
  /\ loadGeneration = 2
  /\ currentCue # NoCue
  /\ Len(audioInstances) = MaxStems
  /\ DOMAIN mixerState = StemIdsOf(currentCue)

ActivationStarted ==
  /\ CueAt(cues', currentCueIndex') # NoCue
  /\ \/ loadGeneration = 0 /\ lastOp'.name \in {"loadCue", "import"}
     \/ loadGeneration > 0 /\ EffectReruns(cues', currentCueIndex')

\* C15 as stated: loadGeneration never decreases.
C15_NeverDecreases ==
  [][loadGeneration' >= loadGeneration]_vars

\* C15, amended: while a player screen is mounted, loadGeneration never
\* decreases; a step that starts an activation adds exactly one to it, and
\* the elements and URLs the activation acquires carry the new value; any
\* other step leaves it as it is.  A player screen mounted after the list
\* was emptied counts from 0 again.
C15_GenerationCountsActivations ==
  [][IF cues' = <<>>
     THEN loadGeneration' = 0
     ELSE IF ActivationStarted
     THEN /\ loadGeneration' = loadGeneration + 1
          /\ \A i \in 1 .. Len(audioInstances') :
               audioInstances'[i].gen = loadGeneration'
          /\ \A i \in 1 .. Len(activeUrls') :
               activeUrls'[i].gen = loadGeneration'
     ELSE loadGeneration' = loadGeneration]_vars

\* The third activation of a player has just been started by a cue list
\* operation, and it acquired all its stems.
C15_Witness ==
  /\ lastOp.name \in {"remove", "reorder"}
  /\ loadGeneration = MaxGen
  /\ Len(audioInstances) = MaxStems

\* C16: within one activation, isLoading turns false only when every stem
\* of the cue has an element that has reported canplay.
C16_ReadyOnlyWhenAllPlayable ==
  [][(isLoading /\ ~isLoading' /\ loadGeneration' = loadGeneration) =>
       \A s \in StemIdsOf(currentCue) :
         \E i \in 1 .. Len(audioInstances') :
           /\ audioInstances'[i].stem = s
           /\ audioInstances'[i].status = "ready"]_vars

\* C17: under fair delivery of the elements' events, an activation that is
\* loading and is not superseded eventually stops loading.
C17_LeavesLoading ==
  \A g \in 1 .. MaxGen :
    (loadGeneration = g /\ isLoading) ~> (~isLoading \/ loadGeneration # g)

\* C18: right after stop, whatever the transport was doing, isPlaying is
\* false, every element is paused and stands at 0, and currentTime is 0.
C18_StopResetsTransport ==
  lastOp.name = "stop" =>
    /\ ~isPlaying
    /\ currentTime = 0
    /\ \A i \in 1 .. Len(audioInstances) :
         audioInstances[i].paused /\ audioInstances[i].pos = 0

\* stop has interrupted a play request of the loaded cue, whose outcome is
\* still to arrive, after the cue's length had become known.
C18_Witness ==
  /\ lastOp.name = "stop"
  /\ Len(audioInstances) = MaxStems
  /\ ~isLoading
  /\ duration = MaxTime
  /\ pendingPlays # <<>>
  /\ \A i \in 1 .. Len(pendingPlays) : pendingPlays[i].kind = "toggle"

\* C19: right after a seek to t, currentTime is t and every element stands
\* at t.
C19_SeekMovesEveryHandle ==
  lastOp.name = "seek" =>
    \A i \in 1 .. Len(audioInstances) : audioInstances[i].pos = currentTime

\* C19, the rest of the statement: a seek changes neither isPlaying nor
\* whether an element is paused.
C19_SeekKeepsTransportStatus ==
  [][lastOp'.name = "seek" =>
       /\ isPlaying' = isPlaying
       /\ Len(audioInstances') = Len(audioInstances)
       /\ \A i \in 1 .. Len(audioInstances) :
            audioInstances'[i].paused = audioInstances[i].paused]_vars

\* C19, the rest of the statement: the play request that follows a seek
\* starts every element, that the host lets start, from where the seek put
\* it.
C19_PlayStartsFromSeekPosition ==
  [][(lastOp.name = "seek" /\ lastOp'.name = "togglePlay" /\ ~isPlaying) =>
       \A i \in 1 .. Len(audioInstances) :
         ~audioInstances'[i].paused =>
           audioInstances'[i].pos = audioInstances[i].pos]_vars

\* C20: a seek to t that directly follows a seek to the same t changes
\* neither currentTime nor the position of any element.
C20_SeekIsIdempotent ==
  [][(lastOp.name = "seek" /\ lastOp'.name = "seek"
      /\ currentTime' = currentTime) =>
       audioInstances' = audioInstances]_vars

\* A seek into the middle of the cue has just been made while its elements
\* sound, one of them a shorter file, and the same seek can be made again.
C20_Witness ==
  /\ lastOp.name = "seek"
  /\ currentTime \in 1 .. MaxTime - 1
  /\ currentTime <= duration
  /\ Len(audioInstances) = MaxStems
  /\ \E i \in 1 .. Len(audioInstances) : audioInstances[i].len < MaxTime
  /\ \A i \in 1 .. Len(audioInstances) :
       ~audioInstances[i].paused /\ audioInstances[i].pos = currentTime

\* C21: togglePlay, when it starts playback, calls play() on every element
\* in the one step that files the request, with isPlaying unchanged: a
\* request no element refused has started them all.  isPlaying turns true
\* only in the step that delivers the outcome of such a request, none of
\* whose play() promises was rejected.
C21_PlayAllThenPlaying ==
  [][/\ (lastOp'.name = "togglePlay" /\ Len(pendingPlays') > Len(pendingPlays)) =>
          /\ isPlaying' = isPlaying
          /\ pendingPlays' =
               Append(pendingPlays, pendingPlays'[Len(pendingPlays')])
          /\ ~pendingPlays'[Len(pendingPlays')].rejected =>
               \A i \in 1 .. Len(audioInstances') : ~audioInstances'[i].paused
     /\ (~isPlaying /\ isPlaying') =>
          /\ lastOp'.name = "playSettled"
          /\ \E i \in 1 .. Len(pendingPlays) :
               /\ pendingPlays[i].kind = "toggle"
               /\ ~pendingPlays[i].rejected
               /\ pendingPlays' = RemoveAt(pendingPlays, i)]_vars

\* The outcome of a play request has just arrived and set isPlaying, with
\* every element of the cue sounding.
C21_Witness ==
  /\ lastOp.name = "playSettled"
  /\ isPlaying
  /\ Len(audioInstances) = MaxStems
  /\ \A i \in 1 .. Len(audioInstances) : ~audioInstances[i].paused

\* The ended listener restarted the cue in place: every element was put at
\* 0 and a play request for all of them was filed.
RestartedInPlace ==
  /\ Len(pendingPlays') = Len(pendingPlays) + 1
  /\ pendingPlays'[Len(pendingPlays')].kind = "ended"
  /\ \A i \in 1 .. Len(audioInstances') : audioInstances'[i].pos = 0

\* The ended listener stopped playback: isPlaying is false, no play request
\* was filed and no element was moved.
StoppedAtEnd ==
  /\ ~isPlaying'
  /\ pendingPlays' = pendingPlays
  /\ \A i \in 1 .. Len(audioInstances') :
       audioInstances'[i].pos = audioInstances[i].pos

\* C22: every ended event of the reference handle of the current activation
\* either restarts the cue in place, and then leaves isPlaying alone, or
\* stops playback, and then restarts nothing: one of the two, never both.
C22_EndedRestartsOrStops ==
  [][lastOp'.name = "refEnded" =>
       \/ RestartedInPlace /\ isPlaying' = isPlaying /\ ~StoppedAtEnd
       \/ StoppedAtEnd /\ ~RestartedInPlace]_vars

\* The reference handle has just ended while the cue was playing and the
\* listener restarted it: isPlaying is still true and the request is filed.
C22_Witness ==
  /\ lastOp.name = "refEnded"
  /\ isPlaying
  /\ pendingPlays # <<>>
  /\ pendingPlays[Len(pendingPlays)].kind = "ended"
  /\ \A i \in 1 .. Len(audioInstances) : audioInstances[i].pos = 0

\* C23: when the reference handle of the active cue ends, the repeat button
\* as it stands at that moment decides: switched on, the cue restarts in
\* place; switched off, playback stops and nothing restarts.
C23_RepeatAsSwitchedAtEnd ==
  [][lastOp'.name = "refEnded" =>
       IF repeatTrack THEN RestartedInPlace
       ELSE StoppedAtEnd /\ ~RestartedInPlace]_vars

\* C24: when the reference handle ends (this build has no restart),
\* isPlaying becomes false; with Auto-Next on at that moment and a cue
\* after the active one, that cue is activated; with the active cue the last
\* of the list, the index does not change; and the index stays in range.
C24_EndedStopsAndAdvances ==
  [][lastOp'.name = "refEnded" =>
       /\ ~isPlaying'
       /\ (autoNext /\ currentCueIndex < Len(cues)) =>
            /\ currentCueIndex' = currentCueIndex + 1
            /\ loadGeneration' = loadGeneration + 1
            /\ cues' = cues
       /\ currentCueIndex = Len(cues) => currentCueIndex' = currentCueIndex
       /\ currentCueIndex' \in 1 .. Len(cues')]_vars

\* C25: an activation changes neither masterVolume nor isMasterMuted, and
\* the elements it builds get the gain of a default entry under that master
\* state: 0 with the master muted, else the master volume.
C25_ActivateKeepsMaster ==
  [][lastOp'.name = "loadCue" =>
       /\ masterVolume' = masterVolume
       /\ isMasterMuted' = isMasterMuted
       /\ \A i \in 1 .. Len(audioInstances') :
            audioInstances'[i].volume =
              (IF isMasterMuted THEN 0 ELSE VolScale * masterVolume)]_vars

\* A second cue has just been activated with the master one step below
\* full, and its elements carry that gain.
C25_Witness ==
  /\ lastOp.name = "loadCue"
  /\ loadGeneration >= 2
  /\ ~isMasterMuted /\ masterVolume = VolScale - 1
  /\ Len(audioInstances) = MaxStems
  /\ \A i \in 1 .. Len(audioInstances) :
       audioInstances[i].volume = VolScale * masterVolume

\* C26: a drawing made from a non-empty sample sequence on a canvas of
\* width W >= 1 consists of exactly W (min, max) pairs, one per column.
C26_OnePairPerColumn ==
  \A s \in DOMAIN waveforms :
    waveforms[s].status = "ready" =>
      /\ Len(waveforms[s].mask) = waveforms[s].width
      /\ \A i \in 1 .. Len(waveforms[s].mask) :
           DOMAIN waveforms[s].mask[i] = {"min", "max"}

\* A lane has drawn fewer samples than its canvas has columns, and another
\* drawing exists whose sample count is no multiple of the width.
C26_Witness ==
  \E s \in DOMAIN waveforms :
    /\ waveforms[s].status = "ready"
    /\ Len(waveforms[s].data) < waveforms[s].width
    /\ Len(waveforms[s].mask) = MaxWidth

\* The samples of column i when the samples are cut into windows of
\* ceil(sampleCount / columnCount) samples each.
WindowOf(data, width, i) ==
  LET step == CeilDiv(Len(data), width)
  IN {k \in 1 .. Len(data) : (i - 1) * step < k /\ k <= i * step}

\* C27: in every drawing, each of the columnCount windows holds samples, and
\* its pair is the least and the greatest sample of the window, so that
\* min <= max.
C27_PeaksAreWindowExtremes ==
  \A s \in DOMAIN waveforms :
    waveforms[s].status = "ready" =>
      LET data == waveforms[s].data
          mask == waveforms[s].mask
      IN \A i \in 1 .. waveforms[s].width :
           LET window == WindowOf(data, waveforms[s].width, i)
           IN /\ window # {}
              /\ i \in DOMAIN mask
              /\ \E k \in window : data[k] = mask[i].min
              /\ \E k \in window : data[k] = mask[i].max
              /\ \A k \in window :
                   mask[i].min <= data[k] /\ data[k] <= mask[i].max
              /\ mask[i].min <= mask[i].max

\* C28: a drawing that fails puts its lane in the error status and draws
\* nothing, not even in part: the lane's mask is what it was; the other
\* lanes and the whole session (isPlaying, currentTime, duration, isLoading,
\* error, the elements, the play requests, the mixer) are as before.
C28_DrawFailureIsLocal ==
  [][lastOp'.name = "drawFailed" =>
       /\ DOMAIN waveforms' = DOMAIN waveforms
       /\ \E s \in DOMAIN waveforms :
            /\ waveforms[s].running
            /\ waveforms'[s] =
                 [waveforms[s] EXCEPT !.status = "error", !.running = FALSE,
                                      !.slow = FALSE]
            /\ \A t \in DOMAIN waveforms \ {s} : waveforms'[t] = waveforms[t]
       /\ UNCHANGED <<cues, currentCueIndex, loadGeneration, audioInstances,
                      isPlaying, currentTime, duration, error, isLoading,
                      mixerState, masterVolume, isMasterMuted, pendingPlays,
                      loadedCount, activeUrls>>]_vars

\* A lane's drawing has just failed while the cue plays and another lane
\* shows its peaks.
C28_Witness ==
  /\ lastOp.name = "drawFailed"
  /\ isPlaying /\ error = NoError
  /\ \E s, t \in DOMAIN waveforms :
       /\ waveforms[s].status = "error" /\ waveforms[s].mask = <<>>
       /\ waveforms[t].status = "ready" /\ waveforms[t].mask # <<>>

\* (clickX / displayWidth) * duration, clamped to [0, duration]
SeekTarget(x, width, d) ==
  LET linear == (x * d) \div width
  IN IF linear < 0 THEN 0 ELSE IF linear > d THEN d ELSE linear

\* C29: right after a click at x on a lane, on or off the lane's extent,
\* currentTime is (x / width) * duration clamped to [0, duration], and 0
\* while the duration is not known.
C29_ClickMapsLinearlyClamped ==
  lastOp.name = "laneClick" =>
    /\ currentTime = SeekTarget(lastOp.x, LaneWidth, duration)
    /\ duration = 0 => currentTime = 0
    /\ \A i \in 1 .. Len(audioInstances) : audioInstances[i].pos = currentTime

\* Clicks left of the lane, right of it and inside it have been made with
\* the duration known; this one, off the right edge, went to the end.
C29_Witness ==
  /\ lastOp.name = "laneClick"
  /\ lastOp.x > LaneWidth
  /\ duration = MaxTime
  /\ currentTime = duration

\* C30: after a step that changes the cue list the store holds exactly the
\* new list, in its order, and a step that leaves the list as it is leaves
\* the store as it is.
C30_ListChangesAreSaved ==
  [][/\ cues' # cues => LoadCuesFromDB(db') = cues'
     /\ cues' = cues => db' = db]_vars

\* The list has been reordered and the store holds the new order.
C30_Witness ==
  /\ lastOp.name = "reorder"
  /\ cues # [i \in 1 .. Len(cues) |-> i]
  /\ LoadCuesFromDB(db) = cues

\* C31: the teardown of an activation lets go of no element that is still
\* playing and of no URL that is not revoked, and once the activation has
\* started the map holds only elements, and activeUrlsRef only URLs, of the
\* new generation.
C31_TeardownReleasesPrevious ==
  /\ orphans = {}
  /\ \A i \in 1 .. Len(audioInstances) :
       audioInstances[i].gen = loadGeneration
  /\ \A i \in 1 .. Len(activeUrls) : activeUrls[i].gen = loadGeneration

\* The first cue's elements were playing, with the play request not yet
\* settled, when the second activation tore them down.
C31_Witness ==
  /\ loadGeneration = 2
  /\ generations[1].made
  /\ \E i \in 1 .. Len(pendingPlays) :
       pendingPlays[i].gen = 1 /\ pendingPlays[i].rejected
  /\ Len(activeUrls) = MaxStems
  /\ orphans = {}

\* C32: whenever isPlaying is false and no play request is outstanding, no
\* element of the map is playing.
C32_NotPlayingMeansSilent ==
  (~isPlaying /\ pendingPlays = <<>>) => ~AnySounding(audioInstances)

\* C32, the case of Next: right after handleNext no element is playing
\* unless isPlaying is true or a play request is outstanding.
C32_NextLeavesNoneSounding ==
  (lastOp.name = "next" /\ pendingPlays = <<>> /\ ~isPlaying)
    => ~AnySounding(audioInstances)

\* C33: a step that removes a cue other than the active one leaves the
\* active cue, by id, and loadGeneration as they were.
C33_RemoveOtherKeepsActive ==
  [][(/\ loadGeneration > 0
      /\ Len(cues') = Len(cues) - 1
      /\ currentCue \in Range(cues'))
       => /\ CueAt(cues', currentCueIndex') = currentCue
          /\ loadGeneration' = loadGeneration]_vars

\* C33, removal of a row below the active one only.
C33_RemoveAfterKeepsActive ==
  [][(/\ loadGeneration > 0
      /\ Len(cues') = Len(cues) - 1
      /\ SubSeq(cues', 1, currentCueIndex) = SubSeq(cues, 1, currentCueIndex))
       => /\ CueAt(cues', currentCueIndex') = currentCue
          /\ loadGeneration' = loadGeneration]_vars

\* C34: while the cue list is not empty the current cue index is the index
\* of one of its rows, so one cue is active.
C34_IndexInRange ==
  cues # <<>> => /\ currentCueIndex \in 1 .. Len(cues)
                 /\ currentCue # NoCue

\* The last row was active when a row was removed, and the index has
\* followed the list.
C34_Witness ==
  /\ lastOp.name = "remove"
  /\ Len(cues) = NumCues - 1
  /\ currentCueIndex = Len(cues)

\* Number of rows of a list that hold a cue.
Occurrences(list, cue) == Cardinality({i \in 1 .. Len(list) : list[i] = cue})

\* C35: a drag-reorder step leaves a list with the same cues, each as often
\* as before, and the cue at the current index is the same cue as before.
C35_ReorderPermutesAndKeepsActive ==
  [][lastOp'.name = "reorder"
       => /\ \A c \in CueIds : Occurrences(cues', c) = Occurrences(cues, c)
          /\ CueAt(cues', currentCueIndex') = currentCue]_vars

\* The active cue has been dragged to another row and the index has
\* followed it.
C35_Witness ==
  /\ lastOp.name = "reorder"
  /\ Len(cues) = NumCues
  /\ currentCue = 1
  /\ currentCueIndex = NumCues

\* C36: a drag-reorder step starts no activation: loadGeneration,
\* isPlaying, the position, the mixer entries and the elements are after it
\* what they were before it.
C36_ReorderStartsNoActivation ==
  [][lastOp'.name = "reorder"
       => UNCHANGED <<loadGeneration, isPlaying, currentTime, mixerState,
                      audioInstances>>]_vars

\* C37: a step of Previous taken with currentTime above 2 seconds is a stop
\* on the same cue: the elements are paused at 0, isPlaying is false,
\* currentTime is 0, and index and generation stay; a step back to the
\* preceding row is taken only with currentTime at most 2 seconds, and
\* activates the cue of that row.
C37_PrevStopsOrGoesBack ==
  [][/\ lastOp'.name = "prev"
          => /\ currentTime > PrevRestartAfter
             /\ ~isPlaying' /\ currentTime' = 0
             /\ audioInstances' = StopAll(audioInstances)
             /\ UNCHANGED <<cues, currentCueIndex, loadGeneration, mixerState>>
     /\ (currentCueIndex' < currentCueIndex /\ cues' = cues)
          => /\ currentTime <= PrevRestartAfter
             /\ currentCueIndex' = currentCueIndex - 1
             /\ loadGeneration' = loadGeneration + 1
             /\ \A i \in 1 .. Len(audioInstances') :
                  audioInstances'[i].cue = cues[currentCueIndex - 1]]_vars

\* Previous was pressed on the second row after its cue had been sought
\* past 2 seconds: the cue was stopped and is still the active one.
C37_Witness ==
  /\ lastOp.name = "prev"
  /\ currentCueIndex = 2
  /\ duration = MaxTime
  /\ currentTime = 0

\* C38: a lane none of whose draws is still running, and whose last draw
\* did not fail, shows the peaks of the file it has now.
C38_LaneShowsPresentFile ==
  \A s \in DOMAIN waveforms :
    (~waveforms[s].running /\ ~waveforms[s].late
       /\ waveforms[s].status = "ready")
      => waveforms[s].shows = "present"

\* The lanes during playback: the first cue loads and plays, the operator
\* seeks to the end of the track and, while isPlaying is set, works the
\* lanes' volume, mute and solo controls.
NextLanes ==
  \/ MountWith({})
  \/ \E s \in AllStemIds : CanPlay(s)
  \/ DurationChange
  \/ HandleWaveformSeek(MaxTime)
  \/ TogglePlayWith({})
  \/ \E i \in 1 .. MaxPending : PlaySettled(i)
  \/ \E s \in AllStemIds : isPlaying /\ currentTime = MaxTime /\ OnVolumeChange(s, VolScale \div 2)
  \/ \E s \in AllStemIds : isPlaying /\ currentTime = MaxTime /\ OnMuteToggle(s)
  \/ \E s \in AllStemIds : isPlaying /\ currentTime = MaxTime /\ OnSoloToggle(s)

SpecLanes == Init /\ [][NextLanes]_vars

\* The elements of the map without their volume.
HandlesOf(instances) ==
  [k \in DOMAIN instances |-> [instances[k] EXCEPT !.volume = 0]]

LaneControl(s) ==
  \/ lastOp'.name = "volume" /\ OnVolumeChange(s, VolScale \div 2)
  \/ lastOp'.name = "mute" /\ OnMuteToggle(s)
  \/ lastOp'.name = "solo" /\ OnSoloToggle(s)

\* C39: a step of the volume, mute or solo control of one stem leaves the
\* mixer entries of the other stems, the master volume and mute, isPlaying,
\* the playback position, loadGeneration, the outstanding play requests and
\* the elements of the map (their volume aside) as they were.
C39_LaneControlIsLocal ==
  [][\A s \in DOMAIN mixerState :
       (lastOp'.name \in {"volume", "mute", "solo"} /\ LaneControl(s)) =>
         /\ DOMAIN mixerState' = DOMAIN mixerState
         /\ \A t \in DOMAIN mixerState \ {s} : mixerState'[t] = mixerState[t]
         /\ masterVolume' = masterVolume
         /\ isMasterMuted' = isMasterMuted
         /\ isPlaying' = isPlaying
         /\ currentTime' = currentTime
         /\ duration' = duration
         /\ loadGeneration' = loadGeneration
         /\ pendingPlays' = pendingPlays
         /\ activeUrls' = activeUrls
         /\ HandlesOf(audioInstances') = HandlesOf(audioInstances)]_vars

\* A stem has just been soloed during playback at the end of the track,
\* beside a muted stem whose entry differs from it in volume as well.
C39_Witness ==
  /\ lastOp.name = "solo"
  /\ isPlaying
  /\ currentTime = MaxTime
  /\ AnySounding(audioInstances)
  /\ \E s, t \in DOMAIN mixerState :
       /\ s # t
       /\ mixerState[s].soloed /\ ~mixerState[s].muted
       /\ mixerState[s].volume = VolScale \div 2
       /\ mixerState[t].muted /\ ~mixerState[t].soloed
       /\ mixerState[t].volume = VolScale

\* ------------------------------------------- The records of the store
\* The cue objects in full, as saveCuesToDB writes and loadCuesFromDB reads
\* them. A File is a positive number, null and undefined are 0.
Null == 0
FolderNames == <<"Act 1", "Act 2">>
FileNames == <<"bass.wav", "kick.wav">>
Takes == {1, 2}

IndexIn(seq, x) == CHOOSE i \in 1 .. Len(seq) : seq[i] = x
FileOf(take, name) == (take - 1) * Len(FileNames) + IndexIn(FileNames, name)

\* Array.prototype.sort: stable, ascending in the keys, keys[i] being the
\* key of seq[i].
SortedBy(seq, keys) ==
  LET Rank(i) ==
        Cardinality({j \in 1 .. Len(seq) :
                       \/ keys[j] < keys[i]
                       \/ keys[j] = keys[i] /\ j < i}) + 1
  IN [k \in 1 .. Len(seq) |-> seq[CHOOSE i \in 1 .. Len(seq) : Rank(i) = k]]

\* processFolder: the audio files of the chosen folder, in the order the
\* browser lists them, with ids local-${index}-${file.name}.
RawFiles(names, take) ==
  [i \in 1 .. Len(names) |->
     [id |-> <<i - 1, names[i]>>, name |-> names[i],
      file |-> FileOf(take, names[i])]]

\* organizeFilesIntoCue(flatFiles, folderName) at the time now.
OrganizeFilesIntoCue(flatFiles, folderName, now) ==
  LET stems == [i \in 1 .. Len(flatFiles) |->
                  [id |-> flatFiles[i].id, name |-> flatFiles[i].name,
                   file |-> flatFiles[i].file,
                   stemName |-> flatFiles[i].name]]
      byName == [i \in 1 .. Len(stems) |-> IndexIn(FileNames, stems[i].name)]
  IN [id |-> [folder |-> folderName, at |-> now], name |-> folderName,
      stems |-> SortedBy(stems, byName)]

\* The folders an operator imports: one or two files, listed in either
\* order, of one of two takes.
Uploads ==
  {<<FileNames[1]>>, <<FileNames[2]>>, <<FileNames[1], FileNames[2]>>,
   <<FileNames[2], FileNames[1]>>}

ImportedCues(now) ==
  {OrganizeFilesIntoCue(RawFiles(names, take), FolderNames[f], now) :
     names \in Uploads, take \in Takes, f \in 1 .. Len(FolderNames)}

\* The cue lists of up to NumCues cues, imported at different times and
\* dragged into any order.
RECURSIVE ListsAt(_)
ListsAt(times) ==
  IF times = <<>> THEN {<<>>}
  ELSE {<<c>> \o rest : c \in ImportedCues(Head(times)),
                         rest \in ListsAt(Tail(times))}

Orders ==
  {t \in UNION {[1 .. n -> CueIds] : n \in 0 .. NumCues} :
     \A i, j \in 1 .. Len(t) : i # j => t[i] # t[j]}

CueLists == UNION {ListsAt(t) : t \in Orders}

\* s[key] in JavaScript: undefined when the object has no such key.
Field(s, key) == IF key \in DOMAIN s THEN s[key] ELSE Null

\* s.file || s.blob || null
BlobOf(s) ==
  IF Field(s, "file") # Null THEN Field(s, "file")
  ELSE IF Field(s, "blob") # Null THEN Field(s, "blob")
  ELSE Null

\* The record saveCuesToDB builds for cues[index + 1].
RecordOf(cue, index) ==
  [id |-> cue.id, name |-> cue.name, order |-> index,
   stems |-> [j \in 1 .. Len(cue.stems) |->
                [id |-> cue.stems[j].id,
                 stemName |-> Field(cue.stems[j], "stemName"),
                 name |-> cue.stems[j].name,
                 blob |-> BlobOf(cue.stems[j])]]]

\* store.put(record) on the store with keyPath 'id'.
Put(store, record) ==
  [id \in DOMAIN store \cup {record.id} |->
     IF id = record.id THEN record ELSE store[id]]

RECURSIVE PutRecords(_, _, _)
PutRecords(store, list, index) ==
  IF index >= Len(list) THEN store
  ELSE PutRecords(Put(store, RecordOf(list[index + 1], index)), list,
                  index + 1)

\* saveCuesToDB(cues) on full cue objects: store.clear(), then the puts.
SaveCueRecords(store, list) == PutRecords(<<>>, list, 0)

\* The keys 'cue-${folderName}-${Date.now()}' in the store's key order.
KeyBefore(a, b) ==
  \/ IndexIn(FolderNames, a.folder) < IndexIn(FolderNames, b.folder)
  \/ a.folder = b.folder /\ a.at < b.at

\* store.getAll(): the records in key order.
GetAll(store) ==
  LET Rank(id) == Cardinality({a \in DOMAIN store : KeyBefore(a, id)}) + 1
  IN [k \in 1 .. Cardinality(DOMAIN store) |->
        store[CHOOSE id \in DOMAIN store : Rank(id) = k]]

\* The cue object loadCuesFromDB builds from a record.
CueOf(r) ==
  [id |-> r.id, name |-> r.name,
   stems |-> [j \in 1 .. Len(r.stems) |->
                [id |-> r.stems[j].id, stemName |-> r.stems[j].stemName,
                 name |-> r.stems[j].name, file |-> r.stems[j].blob]]]

LoadCueRecordsUnsorted(store) ==
  LET records == GetAll(store)
  IN [i \in 1 .. Len(records) |-> CueOf(records[i])]

\* loadCuesFromDB on full records: getAll(), sort by order, map.
LoadCueRecords(store) ==
  LET all == GetAll(store)
      byOrder == [i \in 1 .. Len(all) |-> Field(all[i], "order")]
      records == SortedBy(all, byOrder)
  IN [i \in 1 .. Len(records) |-> CueOf(records[i])]

\* The App with a cue list in memory and an empty store, before
\* PlayerScreen mounts.
InitRecords ==
  /\ cues \in CueLists
  /\ db = <<>>
  /\ orphans = {}
  /\ currentCueIndex = 1
  /\ loadGeneration = 0
  /\ generations = <<>>
  /\ audioInstances = <<>>
  /\ activeUrls = <<>>
  /\ isPlaying = FALSE
  /\ currentTime = 0
  /\ duration = 0
  /\ error = NoError
  /\ isLoading = FALSE
  /\ repeatTrack = FALSE
  /\ autoNext = FALSE
  /\ waveforms = <<>>
  /\ masterVolume = VolScale
  /\ isMasterMuted = FALSE
  /\ mixerState = <<>>
  /\ loadedCount = 0
  /\ pendingPlays = <<>>
  /\ lastOp = [name |-> "init", stale |-> FALSE]

PlayerAtRest ==
  UNCHANGED <<orphans, currentCueIndex, loadGeneration, generations,
              audioInstances, activeUrls, isPlaying, currentTime, duration,
              error, isLoading, repeatTrack, autoNext, waveforms,
              masterVolume, isMasterMuted, mixerState, loadedCount,
              pendingPlays>>

\* saveCuesToDB(cues) with the list in memory.
SaveList ==
  /\ db' = SaveCueRecords(db, cues)
  /\ lastOp' = [name |-> "save", stale |-> FALSE]
  /\ UNCHANGED cues
  /\ PlayerAtRest

\* handleRemoveCue(cueId) on full cue objects, with its save.
RemoveRecord(cueId) ==
  /\ \E i \in 1 .. Len(cues) : cues[i].id = cueId
  /\ cues' = SelectSeq(cues, LAMBDA c : c.id # cueId)
  /\ db' = SaveCueRecords(db, cues')
  /\ lastOp' = [name |-> "removeRecord", stale |-> FALSE]
  /\ PlayerAtRest

\* The page is loaded again: cues starts as [] and App's mount effect sets
\* it to the list loadCuesFromDB returns, when that is not empty.
RestoreList ==
  /\ cues' = LET saved == LoadCueRecords(db)
             IN IF Len(saved) > 0 THEN saved ELSE <<>>
  /\ lastOp' = [name |-> "restore", stale |-> FALSE]
  /\ UNCHANGED db
  /\ PlayerAtRest

NextRecords ==
  \/ SaveList
  \/ \E f \in 1 .. Len(FolderNames), now \in CueIds :
       RemoveRecord([folder |-> FolderNames[f], at |-> now])
  \/ RestoreList

SpecRecords == InitRecords /\ [][NextRecords]_vars

\* C40: a list that was saved and is then loaded from the store comes back
\* as it was: the same cues in the same order, each with its id, its name
\* and its stems in the same order, each stem with its id, name and file.
C40_SaveThenLoadReturnsTheList ==
  [][(lastOp.name \in {"save", "removeRecord"} /\ lastOp'.name = "restore")
       => /\ Len(cues') = Len(cues)
          /\ \A i \in 1 .. Len(cues) :
               /\ cues'[i].id = cues[i].id
               /\ cues'[i].name = cues[i].name
               /\ Len(cues'[i].stems) = Len(cues[i].stems)
               /\ \A j \in 1 .. Len(cues[i].stems) :
                    /\ cues'[i].stems[j].id = cues[i].stems[j].id
                    /\ cues'[i].stems[j].name = cues[i].stems[j].name
                    /\ cues'[i].stems[j].file = cues[i].stems[j].file
                    /\ cues'[i].stems[j].file # Null]_vars

\* A list of two cues was saved and loaded: the cues are not in key order,
\* one has two stems, and both have a stem with the same id and different
\* files.
C40_Witness ==
  /\ lastOp.name = "restore"
  /\ Len(cues) = 2
  /\ db = SaveCueRecords(<<>>, cues)
  /\ KeyBefore(cues[2].id, cues[1].id)
  /\ Len(cues[1].stems) = 2
  /\ \E j \in 1 .. Len(cues[1].stems), k \in 1 .. Len(cues[2].stems) :
       /\ cues[1].stems[j].id = cues[2].stems[k].id
       /\ cues[1].stems[j].file # cues[2].stems[k].file

====
